---------------------------- MODULE Spec2Model ----------------------------
(***************************************************************************)
(* A model of @dooz/ai-router: the LlmRouter (construction, smart routing, *)
(* complete with its fallback chain, stream, checkAvailability), the       *)
(* streaming loops of the OpenRouter and Ollama adapters, and the          *)
(* token-bucket RateLimiter.                                               *)
(*                                                                         *)
(* JavaScript values: the absent value is the string "undefined"; the      *)
(* empty string "" is a value of its own (falsy, like undefined).          *)
(***************************************************************************)
EXTENDS Integers, Sequences, FiniteSets, TLC

(***************************************************************************)
(* Bounds of the model.                                                    *)
(***************************************************************************)
\* longest RouterConfig.providers list
MaxProviders == 2
\* longest RouterConfig.fallbackChain
MaxChain == 3
\* complete() calls made on one router
MaxCalls == 1
\* complete() calls made one after another on a router that is called again
MaxRepeat == 3
\* longest LlmRequest.messages list
MaxMessages == 2
\* addLog calls on a full log
MaxAdds == 3
\* POST /configure requests
MaxConfigures == 2
\* reader.read() results delivered to one stream
MaxReads == 3
\* largest RateLimitConfig.maxRequests
MaxRequests == 2
\* largest RateLimitConfig.windowMs
MaxWindow == 2
\* the clock runs from 0 to MaxTime milliseconds
MaxTime == 2
\* isAllowed calls made on one limiter
MaxLog == 3
\* HTTP requests the gateway is given
MaxInFlight == 2
\* HTTP requests the gateway is given when /configure is posted among them
MaxArrivals == 3

(***************************************************************************)
(* types.ts: the closed sets of identifiers.                               *)
(***************************************************************************)
TaskTypes ==
    {"extraction", "summarization", "comparison", "risk_analysis",
     "code_generation", "reasoning", "general"}

ProviderTypes == {"openrouter", "ollama", "openai", "anthropic", "gemini"}

\* a provider type that a JSON body can carry and createProvider does not know
UnknownType == "bogus"

Undefined == "undefined"

\* JavaScript truthiness of an optional string (request.model, request.taskType)
Truthy(s) == s /= Undefined /\ s /= ""

\* sequences over S of length 0..n
SeqUpTo(S, n) == UNION {[1..k -> S] : k \in 0..n}

(***************************************************************************)
(* providers/base.ts: BaseProvider.constructor.  The adapter object made   *)
(* for one ProviderConfig: its class, the type tag and name the class      *)
(* fixes, and what the constructor takes from the config.  A field the     *)
(* config does not carry reads as undefined.                               *)
(***************************************************************************)
Optional(config, f) == IF f \in DOMAIN config THEN config[f] ELSE Undefined

\* OpenRouterProvider.getDefaultModel, OllamaProvider.getDefaultModel
getDefaultModel(class) ==
    IF class = "OpenRouterProvider" THEN "openai/gpt-4o-mini" ELSE "llama3.2"

\* new OpenRouterProvider(config), new OllamaProvider(config)
BaseProviderNew(class, config) ==
    [threw |-> FALSE, class |-> class,
     type |-> IF class = "OpenRouterProvider" THEN "openrouter" ELSE "ollama",
     name |-> IF class = "OpenRouterProvider" THEN "OpenRouter" ELSE "Ollama (Local)",
     defaultModel |-> IF Truthy(Optional(config, "defaultModel"))
                      THEN config.defaultModel ELSE getDefaultModel(class),
     taskModels |-> IF "taskModels" \in DOMAIN config THEN config.taskModels ELSE << >>,
     apiKey |-> Optional(config, "apiKey")]

\* { ...config, type: 'openrouter', defaultModel: config.defaultModel || model }
Alias(config, model) ==
    [f \in DOMAIN config \cup {"defaultModel"} |->
        IF f = "type" THEN "openrouter"
        ELSE IF f = "defaultModel"
        THEN (IF Truthy(Optional(config, f)) THEN config[f] ELSE model)
        ELSE config[f]]

(***************************************************************************)
(* router.ts: createProvider.  An unknown type throws.                     *)
(***************************************************************************)
createProvider(config) ==
    CASE config.type = "openrouter" -> BaseProviderNew("OpenRouterProvider", config)
      [] config.type = "ollama" -> BaseProviderNew("OllamaProvider", config)
      [] config.type = "openai" ->
           BaseProviderNew("OpenRouterProvider", Alias(config, "openai/gpt-4o-mini"))
      [] config.type = "anthropic" ->
           BaseProviderNew("OpenRouterProvider", Alias(config, "anthropic/claude-3.5-sonnet"))
      [] config.type = "gemini" ->
           BaseProviderNew("OpenRouterProvider", Alias(config, "google/gemini-2.0-flash-exp"))
      [] OTHER ->
           [threw |-> TRUE, class |-> "none", type |-> config.type,
            name |-> "none", defaultModel |-> Undefined]

(***************************************************************************)
(* router.ts: TASK_MODEL_RECOMMENDATIONS.                                  *)
(***************************************************************************)
TASK_MODEL_RECOMMENDATIONS ==
    [t \in TaskTypes |->
        CASE t = "extraction"      -> "openai/gpt-4o-mini"
          [] t = "summarization"   -> "anthropic/claude-3-haiku"
          [] t = "comparison"      -> "anthropic/claude-3.5-sonnet"
          [] t = "risk_analysis"   -> "anthropic/claude-3.5-sonnet"
          [] t = "code_generation" -> "anthropic/claude-3.5-sonnet"
          [] t = "reasoning"       -> "openai/gpt-4o"
          [] t = "general"         -> "openai/gpt-4o-mini"]

(***************************************************************************)
(* router.ts: the constructor's loop over config.providers.  A Map keeps   *)
(* its keys in insertion order and set() on a present key replaces the     *)
(* value in place: keys is the key order, at[k] the adapter.               *)
(***************************************************************************)
EmptyProviders ==
    [threw |-> FALSE, keys |-> << >>, at |-> << >>]

MapSet(m, k, v) ==
    IF k \in DOMAIN m.at
    THEN [m EXCEPT !.at = [m.at EXCEPT ![k] = v]]
    ELSE [m EXCEPT !.keys = Append(m.keys, k),
                   !.at = [x \in DOMAIN m.at \cup {k} |-> IF x = k THEN v ELSE m.at[x]]]

\* faulty variant: a disabled entry is built like any other
SkipsEntryNever(providerConfig) == FALSE

\* the skip of a disabled entry: providerConfig.enabled === false
SkipsEntry(providerConfig) == providerConfig.enabled = "false"

RECURSIVE InitProviders(_, _, _)
InitProviders(list, i, m) ==
    IF i > Len(list) THEN m
    ELSE IF SkipsEntry(list[i]) THEN InitProviders(list, i + 1, m)
    ELSE LET provider == createProvider(list[i])
         IN  IF provider.threw THEN [m EXCEPT !.threw = TRUE]
             ELSE InitProviders(list, i + 1, MapSet(m, list[i].type, provider))

NoRouter == [built |-> FALSE]

(***************************************************************************)
(* router.ts: LlmRouter.constructor.  The result is either a router (the   *)
(* provider map and the fields of the config the router reads later) or a  *)
(* thrown error and no router.                                             *)
(***************************************************************************)
LlmRouterNew(config) ==
    LET m == InitProviders(config.providers, 1, EmptyProviders)
    IN  IF m.threw
        THEN [error |-> "Unknown provider type", router |-> NoRouter]
        ELSE IF config.defaultProvider \notin DOMAIN m.at
        THEN [error |-> "Default provider not configured", router |-> NoRouter]
        ELSE [error |-> "",
              router |-> [built |-> TRUE,
                          keys |-> m.keys,
                          providers |-> m.at,
                          defaultProvider |-> config.defaultProvider,
                          fallbackChain |-> config.fallbackChain,
                          smartRouting |-> config.smartRouting]]

\* the RouterConfig values over provider types T and chain entries C
ProviderConfigs(T) == [type : T, enabled : {"true", "false", Undefined}]

ConfigSpace(T, chains) ==
    [providers : SeqUpTo(ProviderConfigs(T), MaxProviders),
     defaultProvider : T,
     fallbackChain : chains,
     smartRouting : BOOLEAN]

VARIABLES
    router,      \* the LlmRouter, or NoRouter
    ctorError,   \* the error the last construction threw, "" when none
    lastConfig,  \* the RouterConfig last handed to the constructor
    pc,          \* where the current complete() call stands
    asked,       \* the request as the caller passed it, before selectProvider
    request,     \* the caller's request object (selectProvider writes to it)
    invocations, \* the adapter complete() calls of the current call, in order
    caught,      \* the error caught from the default adapter, or None
    result,      \* what the call gave its caller: a response, an error, or None
    ncalls,      \* complete() calls begun on this router
    history,     \* the finished complete() calls before the current one: their
                 \* adapter calls and what each gave its caller
    spc,         \* where the current stream() call stands
    streamCalls, \* the adapter stream() calls of the current stream, in order
    buffer,      \* the adapter's buffer: the pieces of the unfinished line
    adapterOut,  \* the chunks the adapter's generator has yielded
    routerOut,   \* the chunks router.stream has yielded to its caller
    serror,      \* the error the stream ended with, or None
    nreads,      \* reader.read() results delivered so far
    lines,       \* the lines of the last read the adapter's loop has not reached
    atYield,     \* the generator is suspended at a yield, a chunk handed over
    seen,        \* what the body has held: a skipped line, an end without marker
    apc,         \* where the current checkAvailability() call stands
    aidx,        \* the position in the provider map of the adapter being probed
    results,     \* checkAvailability's results object
    aerror,      \* the error checkAvailability threw, or None
    probes,      \* how the fetch of each probe so far ended, in order
    limiter,     \* the RateLimiter's config
    buckets,     \* the RateLimiter's bucket map
    now,         \* Date.now()
    admitLog,    \* the isAllowed calls so far: key, time, result, bucket created
    lastReturn,  \* the last limiter call: its name, its client id and, in a
                 \* record named after what it is, the value it returned
    storeConfig, \* the ConfigStore's config
    storeLogs,   \* the ConfigStore's logs, newest first
    storeReturn, \* the last ConfigStore call: the config before it, its
                 \* argument and the value it returned
    reqs,        \* the HTTP requests of the gateway and of server.ts: the
                 \* app each one came to, where it stands and the response
                 \* it was given
    gateway,     \* the gateway's router variable, server.ts's, and their
                 \* environment, the answer of the last /configure, the
                 \* router GET requests, and how many requests to such
                 \* endpoints there have been
    routerCalls, \* the requests for which the handler called router.complete
    adapter,     \* a provider adapter: its type, defaultModel and config.taskModels
    handed,      \* the request object of the last adapter call: as the caller
                 \* made it, and as it is after the call
    payload      \* the model and the messages the adapter put in its HTTP body

routerVars == <<router, ctorError, lastConfig>>
callVars == <<pc, asked, request, invocations, caught, result, ncalls, history>>
streamVars ==
    <<spc, streamCalls, buffer, adapterOut, routerOut, serror, nreads, lines, atYield, seen>>
availVars == <<apc, aidx, results, aerror, probes>>
limiterVars == <<limiter, buckets, now, admitLog, lastReturn>>
storeVars == <<storeConfig, storeLogs, storeReturn>>
serverVars == <<reqs, gateway, routerCalls>>
adapterVars == <<adapter, handed, payload>>
vars ==
    <<routerVars, callVars, streamVars, availVars, limiterVars, storeVars, serverVars,
      adapterVars>>

None == [kind |-> "none"]

NoConfig ==
    [providers |-> << >>, defaultProvider |-> Undefined,
     fallbackChain |-> << >>, smartRouting |-> FALSE]

NoRequest == [model |-> Undefined, taskType |-> Undefined]

\* the requests of the model: model and taskType are the fields the router reads
Requests ==
    [model : {Undefined, "", "custom/model"}, taskType : TaskTypes \cup {Undefined}]

IdleStream ==
    /\ spc = "idle"
    /\ streamCalls = << >>
    /\ buffer = << >>
    /\ adapterOut = << >>
    /\ routerOut = << >>
    /\ serror = None
    /\ nreads = 0
    /\ lines = << >>
    /\ atYield = FALSE
    /\ seen = [skipped |-> FALSE, eof |-> FALSE]

IdleCallOnly ==
    /\ pc = "idle"
    /\ asked = NoRequest
    /\ request = NoRequest
    /\ invocations = << >>
    /\ caught = None
    /\ result = None
    /\ ncalls = 0
    /\ history = << >>

IdleAvail ==
    /\ apc = "idle"
    /\ aidx = 0
    /\ results = << >>
    /\ aerror = None
    /\ probes = << >>

NoLimiter ==
    [maxRequests |-> 0, windowMs |-> 0, perClient |-> TRUE, globalLimit |-> << >>]

IdleLimiter ==
    /\ limiter = NoLimiter
    /\ buckets = << >>
    /\ now = 0
    /\ admitLog = << >>
    /\ lastReturn = None

\* config.ts: DEFAULT_CONFIG
DEFAULT_CONFIG ==
    [task_routes |->
        << [task |-> "extraction", provider |-> "openrouter",
            model |-> "openai/gpt-4o-mini", enabled |-> TRUE],
           [task |-> "summarization", provider |-> "openrouter",
            model |-> "anthropic/claude-3-haiku", enabled |-> TRUE],
           [task |-> "comparison", provider |-> "openrouter",
            model |-> "anthropic/claude-3.5-sonnet", enabled |-> TRUE],
           [task |-> "risk_analysis", provider |-> "openrouter",
            model |-> "anthropic/claude-3.5-sonnet", enabled |-> TRUE],
           [task |-> "code_generation", provider |-> "openrouter",
            model |-> "anthropic/claude-3.5-sonnet", enabled |-> TRUE],
           [task |-> "reasoning", provider |-> "openrouter",
            model |-> "openai/gpt-4o", enabled |-> TRUE],
           [task |-> "general", provider |-> "openrouter",
            model |-> "openai/gpt-4o-mini", enabled |-> TRUE] >>,
     default_provider |-> "openrouter",
     fallback_chain |-> <<"ollama">>]

\* config.ts: private maxLogs = 100
maxLogs == 100

\* the ConfigStore after its constructor
IdleStore ==
    /\ storeConfig = DEFAULT_CONFIG
    /\ storeLogs = << >>
    /\ storeReturn = None

\* the request ids of the gateway
Reqs == 1..MaxInFlight

NoReq ==
    [pc |-> "idle", app |-> Undefined, endpoint |-> Undefined, client |-> Undefined,
     allowed |-> FALSE, response |-> None, router |-> Undefined, configures |-> 0,
     prompt |-> Undefined]

\* the two apps before any request: let router = null in each module
IdleServer ==
    /\ reqs = [i \in Reqs |-> NoReq]
    /\ gateway = [router |-> "null", server |-> "null", env |-> FALSE, configures |-> 0,
                  answer |-> None, got |-> << >>, others |-> 0]
    /\ routerCalls = << >>

NoAdapter == [built |-> FALSE]

IdleAdapter ==
    /\ adapter = NoAdapter
    /\ handed = None
    /\ payload = None

IdleCall ==
    /\ IdleCallOnly /\ IdleStream /\ IdleAvail /\ IdleLimiter /\ IdleStore /\ IdleServer
    /\ IdleAdapter

(***************************************************************************)
(* Construction.                                                           *)
(***************************************************************************)
InitCtor ==
    /\ router = NoRouter
    /\ ctorError = ""
    /\ lastConfig = NoConfig
    /\ IdleCall

\* createRouter(config) = new LlmRouter(config); one construction per router
createRouter(config) ==
    /\ lastConfig = NoConfig
    /\ lastConfig' = config
    /\ router' = LlmRouterNew(config).router
    /\ ctorError' = LlmRouterNew(config).error
    /\ UNCHANGED <<adapterVars, storeVars, serverVars, callVars, streamVars, availVars, limiterVars>>

\* the constructor does not read fallbackChain: two chains are enough here
NextCtor ==
    /\ lastConfig = NoConfig
    /\ \E config \in ConfigSpace(ProviderTypes \cup {UnknownType},
                                  {<< >>, <<"ollama">>}) :
          createRouter(config)

SpecCtor == InitCtor /\ [][NextCtor]_vars

\* faulty variant: the recommendation overwrites an explicit model
selectProviderOverwrites(r, req) ==
    IF r.smartRouting /\ Truthy(req.taskType)
    THEN [req EXCEPT !.model = TASK_MODEL_RECOMMENDATIONS[req.taskType]]
    ELSE req

(***************************************************************************)
(* router.ts: selectProvider.  It writes the recommended model into the    *)
(* caller's request and returns the default provider.                      *)
(***************************************************************************)
selectProvider(r, req) ==
    IF r.smartRouting /\ Truthy(req.taskType) /\ ~Truthy(req.model)
    THEN [req EXCEPT !.model = TASK_MODEL_RECOMMENDATIONS[req.taskType]]
    ELSE req

getDefaultProvider(r) == r.defaultProvider

(***************************************************************************)
(* router.ts: complete.  An adapter call is a suspension point: the call   *)
(* is recorded as pending when it is made and settles in a later step.     *)
(* A response and an error carry the place they were made (call number,    *)
(* invocation number), which stands for the identity of the object.        *)
(***************************************************************************)
\* faulty variant: a fallback adapter is handed a request without the model
\* that was resolved for the call
InvokeFallbackUnresolved(entry, key, req) ==
    [entry |-> entry, provider |-> key,
     model |-> IF entry = 0 THEN req.model ELSE Undefined,
     outcome |-> "pending", value |-> None]

Invoke(entry, key, req) ==
    [entry |-> entry, provider |-> key, model |-> req.model,
     outcome |-> "pending", value |-> None]

Response(r, key, call, n) ==
    [kind |-> "response", provider |-> r.providers[key].type,
     by |-> key, call |-> call, n |-> n]

ErrorOf(key, call, n) ==
    [kind |-> "error", provider |-> Undefined, by |-> key, call |-> call, n |-> n]

\* faulty variant: the loop does not skip the default provider
SkipsFallbackKeepsDefault(r, fallbackType) ==
    fallbackType \notin DOMAIN r.providers

\* faulty variant: a circuit breaker, a provider that failed in an earlier
\* call is skipped too
SkipsFallbackOnceFailed(r, fallbackType) ==
    \/ fallbackType = r.defaultProvider
    \/ fallbackType \notin DOMAIN r.providers
    \/ \E h \in 1..Len(history) : \E n \in 1..Len(history[h].invocations) :
          /\ history[h].invocations[n].provider = fallbackType
          /\ history[h].invocations[n].outcome = "fail"

\* the loop's two skips: the default provider, and a type with no adapter
SkipsFallback(r, fallbackType) ==
    \/ fallbackType = r.defaultProvider
    \/ fallbackType \notin DOMAIN r.providers

\* faulty variant: the loop starts over at the head of the chain after each failure
NextFallbackRestarts(r, from) ==
    LET rest == {j \in 1..Len(r.fallbackChain) :
                    /\ r.fallbackChain[j] /= r.defaultProvider
                    /\ r.fallbackChain[j] \in DOMAIN r.providers}
    IN  IF rest = {} \/ from > Len(r.fallbackChain) THEN 0
        ELSE CHOOSE j \in rest : \A k \in rest : j <= k

\* faulty variant: the loop takes the last entry it does not skip first
NextFallbackFromEnd(r, from) ==
    LET rest == {j \in from..Len(r.fallbackChain) : ~SkipsFallback(r, r.fallbackChain[j])}
    IN  IF rest = {} THEN 0 ELSE CHOOSE j \in rest : \A k \in rest : j >= k

\* the first chain index >= from that the loop does not skip, 0 when none
NextFallback(r, from) ==
    LET rest == {j \in from..Len(r.fallbackChain) : ~SkipsFallback(r, r.fallbackChain[j])}
    IN  IF rest = {} THEN 0 ELSE CHOOSE j \in rest : \A k \in rest : j <= k

\* faulty variant: the call ends without an error to throw
ThrownNothing(primaryError, lastError) == None

\* faulty variant: the last error seen is thrown
ThrownLastError(primaryError, lastError) == lastError

\* what the call throws once the chain is exhausted: the caught primary error
ThrownWhenExhausted(primaryError, lastError) == primaryError

Settle(outcome, value) ==
    [invocations EXCEPT ![Len(invocations)] =
        [@ EXCEPT !.outcome = outcome, !.value = value]]

\* the for loop from chain index `from`, up to its next await or its throw
FallbackLoop(from, settled, primaryError, lastError) ==
    LET j == NextFallback(router, from)
    IN  IF j = 0
        THEN /\ pc' = "thrown"
             /\ result' = ThrownWhenExhausted(primaryError, lastError)
             /\ invocations' = settled
        ELSE /\ pc' = "awaitFallback"
             /\ result' = None
             /\ invocations' =
                    Append(settled, Invoke(j, router.fallbackChain[j], request))

\* complete(request), as long as fewer than most calls were made.  The router
\* object holds nothing of an earlier call; where successive calls are
\* studied (record), history keeps what the call before did.
completeWithin(req, most, record) ==
    /\ router.built
    /\ pc \in {"idle", "returned", "thrown"}
    /\ ncalls < most
    /\ ncalls' = ncalls + 1
    /\ history' = IF pc = "idle" \/ ~record THEN history
                  ELSE Append(history, [invocations |-> invocations, result |-> result])
    /\ asked' = req
    /\ request' = selectProvider(router, req)
    /\ invocations' = << Invoke(0, getDefaultProvider(router), selectProvider(router, req)) >>
    /\ caught' = None
    /\ result' = None
    /\ pc' = "awaitPrimary"
    /\ UNCHANGED <<adapterVars, storeVars, serverVars, routerVars, streamVars, availVars, limiterVars>>

complete(req) == completeWithin(req, MaxCalls, FALSE)

PrimaryResolves ==
    /\ pc = "awaitPrimary"
    /\ LET response == Response(router, invocations[1].provider, ncalls, 1)
       IN  /\ invocations' = Settle("ok", response)
           /\ result' = response
    /\ pc' = "returned"
    /\ UNCHANGED <<adapterVars, storeVars, serverVars, routerVars, streamVars, availVars, limiterVars, asked, request, caught, ncalls, history>>

PrimaryRejects ==
    /\ pc = "awaitPrimary"
    /\ LET error == ErrorOf(invocations[1].provider, ncalls, 1)
       IN  /\ caught' = error
           /\ FallbackLoop(1, Settle("fail", error), error, error)
    /\ UNCHANGED <<adapterVars, storeVars, serverVars, routerVars, streamVars, availVars, limiterVars, asked, request, ncalls, history>>

FallbackResolves ==
    /\ pc = "awaitFallback"
    /\ LET n == Len(invocations)
           response == Response(router, invocations[n].provider, ncalls, n)
       IN  /\ invocations' = Settle("ok", response)
           /\ result' = response
    /\ pc' = "returned"
    /\ UNCHANGED <<adapterVars, storeVars, serverVars, routerVars, streamVars, availVars, limiterVars, asked, request, caught, ncalls, history>>

FallbackRejects ==
    /\ pc = "awaitFallback"
    /\ LET n == Len(invocations)
           fallbackError == ErrorOf(invocations[n].provider, ncalls, n)
       IN  FallbackLoop(invocations[n].entry + 1, Settle("fail", fallbackError),
                        caught, fallbackError)
    /\ UNCHANGED <<adapterVars, storeVars, serverVars, routerVars, streamVars, availVars, limiterVars, asked, request, caught, ncalls, history>>

\* the provider types of the routers that serve calls in this model
CallTypes == {"openrouter", "ollama", "anthropic"}

\* the configurations of those routers: every entry enabled, each type listed
\* once (a second entry of a type replaces the first in the constructor's
\* map and makes the router of the list without it)
CallConfigs ==
    {c \in ConfigSpace(CallTypes, SeqUpTo(CallTypes, MaxChain)) :
        /\ \A i \in 1..Len(c.providers) : c.providers[i].enabled = "true"
        /\ \A i, j \in 1..Len(c.providers) :
              i < j => c.providers[i].type /= c.providers[j].type}

InitCall ==
    /\ \E config \in CallConfigs :
          /\ LlmRouterNew(config).router.built
          /\ router = LlmRouterNew(config).router
          /\ lastConfig = config
    /\ ctorError = ""
    /\ IdleCall

\* the requests of the calls that run through the chain
CallRequests ==
    [model : {Undefined, "custom/model"}, taskType : {Undefined, "summarization"}]

NextCall ==
    \/ \E req \in CallRequests : complete(req)
    \/ PrimaryResolves
    \/ PrimaryRejects
    \/ FallbackResolves
    \/ FallbackRejects

SpecCall == InitCall /\ [][NextCall]_vars

\* a router with two different fallbacks, one listed twice, that serves
\* several calls one after another
RepeatConfigs ==
    {c \in ConfigSpace({"openrouter", "ollama", "anthropic"},
                        {<<"ollama", "openrouter", "anthropic", "ollama">>}) :
        /\ Len(c.providers) = MaxProviders
        /\ c.defaultProvider = "openrouter"
        /\ c.smartRouting
        /\ \A i \in 1..Len(c.providers) : c.providers[i].enabled = "true"
        /\ \A i, j \in 1..Len(c.providers) :
              i < j => c.providers[i].type /= c.providers[j].type}

InitRepeat ==
    /\ \E config \in RepeatConfigs :
          /\ LlmRouterNew(config).router.built
          /\ router = LlmRouterNew(config).router
          /\ lastConfig = config
    /\ ctorError = ""
    /\ IdleCall

NextRepeat ==
    \/ \E req \in {NoRequest} : completeWithin(req, MaxRepeat, TRUE)
    \/ PrimaryResolves
    \/ PrimaryRejects
    \/ FallbackResolves
    \/ FallbackRejects

SpecRepeat == InitRepeat /\ [][NextRepeat]_vars

\* every adapter call that was made settles
SpecCallFair ==
    /\ SpecCall
    /\ WF_vars(PrimaryResolves \/ PrimaryRejects)
    /\ WF_vars(FallbackResolves \/ FallbackRejects)

\* model selection alone, over every request
NextSelect == \E req \in Requests : complete(req)

SpecSelect == InitCall /\ [][NextSelect]_vars

(***************************************************************************)
(* providers/base.ts, openrouter.ts, ollama.ts: complete up to its fetch.  *)
(* What an adapter puts in the body of its HTTP request: getModel(request) *)
(* and buildMessages(request).                                             *)
(***************************************************************************)
AdapterTypes == {"openrouter", "ollama"}

\* config.taskModels: absent, empty, or with a model for some task types
TaskModelsSpace ==
    {<< >>} \cup
    {<<tm>> : tm \in {[t \in D |-> "task/" \o t] : D \in SUBSET {"summarization"}}
                  \cup {[t \in {"summarization"} |-> ""]}}

\* the ProviderConfig of an adapter: with or without a default model, per-task
\* models and an API key
AdapterConfigs ==
    [type : AdapterTypes, enabled : {"true"},
     defaultModel : {Undefined, "config/default"},
     taskModels : TaskModelsSpace,
     apiKey : {Undefined, "sk-key"}]

\* this.config.taskModels?.[request.taskType]
TaskModelOf(a, taskType) ==
    IF a.taskModels = << >> THEN Undefined
    ELSE IF taskType \in DOMAIN a.taskModels[1] THEN a.taskModels[1][taskType]
    ELSE Undefined

\* faulty variant: the provider's per-task model comes before the request's
getModelTaskFirst(a, req) ==
    IF Truthy(req.taskType) /\ Truthy(TaskModelOf(a, req.taskType))
    THEN TaskModelOf(a, req.taskType)
    ELSE IF Truthy(req.model) THEN req.model
    ELSE a.defaultModel

getModel(a, req) ==
    IF Truthy(req.model) THEN req.model
    ELSE IF Truthy(req.taskType) /\ Truthy(TaskModelOf(a, req.taskType))
    THEN TaskModelOf(a, req.taskType)
    ELSE a.defaultModel

Roles == {"system", "user", "assistant"}

\* the messages of a request: the content of each names its place
MessageLists ==
    UNION {{[i \in 1..n |-> [role |-> roles[i], content |-> <<"m", i>>]] :
               roles \in [1..n -> Roles]} : n \in 0..MaxMessages}

SystemMessage(systemPrompt) == [role |-> "system", content |-> <<"p", systemPrompt>>]

buildMessages(req) ==
    IF Truthy(req.systemPrompt)
          /\ (Len(req.messages) = 0 \/ req.messages[1].role /= "system")
    THEN <<SystemMessage(req.systemPrompt)>> \o req.messages
    ELSE req.messages

AdapterRequests ==
    [model : {Undefined, "custom/model"},
     taskType : {Undefined, "summarization", "reasoning"},
     systemPrompt : {Undefined, "", "be brief"},
     messages : MessageLists]

\* openrouter.ts: if (!this.apiKey) throw, the first statement of complete;
\* the Ollama adapter asks for no key
KeyMissing(a) == a.class = "OpenRouterProvider" /\ ~Truthy(a.apiKey)

Thrown(a) == IF KeyMissing(a) THEN "OpenRouter API key is required" ELSE ""

\* provider.complete(request) up to its fetch: without the key it throws and
\* no body is made; else the body is built from getModel and buildMessages;
\* neither writes to the request
Body(a, req) ==
    /\ payload' = IF KeyMissing(a) THEN payload
                  ELSE [model |-> getModel(a, req), messages |-> buildMessages(req)]
    /\ UNCHANGED adapter

\* the adapter called by its owner; one call is followed
AdapterComplete(req) ==
    /\ adapter /= NoAdapter
    /\ handed = None
    /\ handed' = [via |-> "adapter", asked |-> req, request |-> req,
                  thrown |-> Thrown(adapter)]
    /\ Body(adapter, req)
    /\ UNCHANGED <<storeVars, serverVars, routerVars, callVars, streamVars, availVars,
                   limiterVars>>

\* router.complete(request) up to the fetch of the default provider's adapter,
\* or to its throw, after which the router with no fallback throws too
RouterComplete(req) ==
    /\ router.built
    /\ handed = None
    /\ handed' = [via |-> "router", asked |-> req,
                  request |-> selectProvider(router, req),
                  thrown |-> Thrown(router.providers[getDefaultProvider(router)])]
    /\ Body(router.providers[getDefaultProvider(router)], selectProvider(router, req))
    /\ UNCHANGED <<storeVars, serverVars, routerVars, callVars, streamVars, availVars,
                   limiterVars>>

\* a router over one adapter, made from the adapter's ProviderConfig
AdapterRouterConfigs(config) ==
    {[providers |-> <<config>>, defaultProvider |-> config.type,
      fallbackChain |-> << >>, smartRouting |-> smart] : smart \in BOOLEAN}

\* the adapter is the router's provider, the object createProvider made
InitAdapter ==
    /\ \E config \in AdapterConfigs :
          \E rc \in AdapterRouterConfigs(config) :
             /\ LlmRouterNew(rc).router.built
             /\ router = LlmRouterNew(rc).router
             /\ lastConfig = rc
             /\ adapter = LlmRouterNew(rc).router.providers[config.type]
    /\ ctorError = ""
    /\ handed = None
    /\ payload = None
    /\ IdleCallOnly /\ IdleStream /\ IdleAvail /\ IdleLimiter /\ IdleStore /\ IdleServer

NextAdapter ==
    \/ \E req \in AdapterRequests : AdapterComplete(req)
    \/ \E req \in AdapterRequests : RouterComplete(req)

SpecAdapter == InitAdapter /\ [][NextAdapter]_vars



(***************************************************************************)
(* providers/openrouter.ts, providers/ollama.ts: stream.  The body arrives *)
(* as reads; a read is a sequence of tokens, each a line break or a piece  *)
(* of text that holds no line break.  The pieces and their text:           *)
(*                                                                         *)
(*    piece    OpenRouter (SSE)                        Ollama (NDJSON)     *)
(*    "done"   data: [DONE]                            {"done":true}       *)
(*    "hel"    data: {"choices":[{"delta":             {"message":{"content"*)
(*               {"content":"Hel"}}]}                    :"Hel"},"done":false}*)
(*    "lo"     the same with content "lo"              the same with "lo"  *)
(*    "empty"  data: {"choices":[{"delta":{}}]}        {"message":{"content"*)
(*                                                       :""},"done":false}*)
(*    "bad"    data: {oops                             {oops               *)
(*    "note"   : keep-alive                            # keep-alive        *)
(*                                                                         *)
(* A line is the pieces between two line breaks, concatenated.  Two or     *)
(* more pieces on one line never form the marker or valid JSON.            *)
(***************************************************************************)
Pieces == {"done", "hel", "lo", "empty", "bad", "note"}

NL == "\n"

\* the reads of the model: nothing, one token (a line break, or a piece of a
\* line that goes on in the next read), one whole line, two whole lines
Reads ==
    {<< >>}
    \cup {<<t>> : t \in Pieces \cup {NL}}
    \cup {<<p, NL>> : p \in Pieces}
    \cup {<<p, NL, q, NL>> : p \in {"done", "hel", "empty"}, q \in {"done", "hel", "lo"}}

Chunk(content, done) == [content |-> content, done |-> done]

\* (buffer + decoded).split('\n'): the segments between the line breaks
RECURSIVE SplitNL(_, _, _)
SplitNL(text, cur, acc) ==
    IF text = << >> THEN Append(acc, cur)
    ELSE IF Head(text) = NL THEN SplitNL(Tail(text), << >>, Append(acc, cur))
    ELSE SplitNL(Tail(text), Append(cur, Head(text)), acc)

\* JSON.parse of a line's data, then the content the adapter reads from it:
\* "throws" for text that is not JSON
ParsedContent(data) ==
    IF Len(data) /= 1 THEN "throws"
    ELSE CASE data[1] = "hel"   -> "Hel"
           [] data[1] = "lo"    -> "lo"
           [] data[1] = "empty" -> ""
           [] OTHER             -> "throws"

\* faulty variant: a delta without content is yielded as an empty chunk
OpenRouterLineYieldsEmpty(line) ==
    IF line = << >> \/ line[1] = "note" THEN [chunks |-> << >>, return |-> FALSE, skipped |-> TRUE]
    ELSE IF line = <<"done">>
    THEN [chunks |-> << Chunk("", TRUE) >>, return |-> TRUE, skipped |-> FALSE]
    ELSE IF ParsedContent(line) = "throws"
    THEN [chunks |-> << >>, return |-> FALSE, skipped |-> TRUE]
    ELSE [chunks |-> << Chunk(ParsedContent(line), FALSE) >>,
          return |-> FALSE, skipped |-> FALSE]

\* openrouter.ts: the body of the loop over lines, for one line
OpenRouterLine(line) ==
    IF line = << >> \/ line[1] = "note"
    THEN \* the line does not start with 'data: '
         [chunks |-> << >>, return |-> FALSE, skipped |-> TRUE]
    ELSE IF line = <<"done">>
    THEN [chunks |-> << Chunk("", TRUE) >>, return |-> TRUE, skipped |-> FALSE]
    ELSE IF ParsedContent(line) = "throws"
    THEN \* catch: skip malformed JSON
         [chunks |-> << >>, return |-> FALSE, skipped |-> TRUE]
    ELSE IF ParsedContent(line) /= ""
    THEN [chunks |-> << Chunk(ParsedContent(line), FALSE) >>,
          return |-> FALSE, skipped |-> FALSE]
    ELSE [chunks |-> << >>, return |-> FALSE, skipped |-> FALSE]

\* ollama.ts: the body of the loop over lines, for one line
OllamaLine(line) ==
    IF line = << >>
    THEN \* !line.trim()
         [chunks |-> << >>, return |-> FALSE, skipped |-> TRUE]
    ELSE IF line = <<"done">>
    THEN \* parsed.done
         [chunks |-> << Chunk("", TRUE) >>, return |-> TRUE, skipped |-> FALSE]
    ELSE IF ParsedContent(line) = "throws"
    THEN \* catch: skip malformed JSON
         [chunks |-> << >>, return |-> FALSE, skipped |-> TRUE]
    ELSE IF ParsedContent(line) /= ""
    THEN [chunks |-> << Chunk(ParsedContent(line), FALSE) >>,
          return |-> FALSE, skipped |-> FALSE]
    ELSE [chunks |-> << >>, return |-> FALSE, skipped |-> FALSE]

AdapterLine(class, line) ==
    IF class = "OllamaProvider" THEN OllamaLine(line) ELSE OpenRouterLine(line)

\* for (const line of lines), from the line ls[1] to the next yield: the chunk
\* yielded there, whether it is the terminal one (the generator returns when
\* it is resumed), and the lines the loop has still ahead of it
RECURSIVE ForLines(_, _, _)
ForLines(class, ls, skipped) ==
    IF ls = << >>
    THEN [chunks |-> << >>, return |-> FALSE, skipped |-> skipped, lines |-> << >>]
    ELSE LET r == AdapterLine(class, Head(ls))
         IN  IF r.chunks /= << >>
             THEN [chunks |-> r.chunks, return |-> r.return,
                   skipped |-> skipped \/ r.skipped,
                   lines |-> IF r.return THEN << >> ELSE Tail(ls)]
             ELSE ForLines(class, Tail(ls), skipped \/ r.skipped)

\* one turn of the while loop for a read that is not the end of the body, up
\* to the first yield of the loop over its lines
OnRead(class, buf, rd) ==
    LET parts == SplitNL(buf \o rd, << >>, << >>)
        r == ForLines(class, SubSeq(parts, 1, Len(parts) - 1), FALSE)
    IN  [buffer |-> parts[Len(parts)], chunks |-> r.chunks,
         return |-> r.return, skipped |-> r.skipped, lines |-> r.lines]

\* faulty variant: the chunk that says done is not passed on
YieldStarDropsDone(out, chunks) ==
    out \o SelectSeq(chunks, LAMBDA c : ~c.done)

\* router.ts: yield* provider.stream(request), for the chunks of one step
YieldStar(out, chunks) == out \o chunks

StreamCall(key, req) == [provider |-> key, model |-> req.model]

\* faulty variant: a failed stream is started again on a fallback provider
StreamFailsFallsBack(error) ==
    LET j == NextFallback(router, 1)
    IN  IF j = 0 \/ Len(streamCalls) > 1
        THEN /\ spc' = "failed"
             /\ serror' = error
             /\ UNCHANGED <<streamCalls, buffer, adapterOut, routerOut, nreads, lines, atYield, seen>>
        ELSE /\ spc' = "fetching"
             /\ streamCalls' = Append(streamCalls,
                                      StreamCall(router.fallbackChain[j], request))
             /\ buffer' = << >>
             /\ UNCHANGED <<serror, adapterOut, routerOut, nreads, lines, atYield, seen>>

\* an error thrown inside the adapter's generator leaves router.stream as it is
StreamFails(error) ==
    /\ spc' = "failed"
    /\ serror' = error
    /\ UNCHANGED <<streamCalls, buffer, adapterOut, routerOut, nreads, lines, atYield, seen>>

StreamClass == router.providers[streamCalls[Len(streamCalls)].provider].class

\* router.ts: stream, up to the adapter's fetch
stream(req) ==
    /\ router.built
    /\ spc = "idle"
    /\ asked' = req
    /\ request' = selectProvider(router, req)
    /\ streamCalls' = << StreamCall(getDefaultProvider(router), selectProvider(router, req)) >>
    /\ spc' = "fetching"
    /\ UNCHANGED <<adapterVars, storeVars, serverVars, routerVars, availVars, limiterVars, pc, invocations, caught, result, ncalls, history>>
    /\ UNCHANGED <<buffer, adapterOut, routerOut, serror, nreads, lines, atYield, seen>>

\* the fetch answered ok and the body has a reader
StreamOpens ==
    /\ spc = "fetching"
    /\ spc' = "reading"
    /\ UNCHANGED <<adapterVars, storeVars, serverVars, routerVars, callVars, availVars, limiterVars>>
    /\ UNCHANGED <<streamCalls, buffer, adapterOut, routerOut, serror, nreads, lines, atYield, seen>>

\* no API key, a rejected fetch, a status that is not ok, or no body
StreamOpenFails ==
    /\ spc = "fetching"
    /\ StreamFails(ErrorOf(streamCalls[Len(streamCalls)].provider, 0, Len(streamCalls)))
    /\ UNCHANGED <<adapterVars, storeVars, serverVars, routerVars, callVars, availVars, limiterVars>>

\* the generator runs on to its next yield and yield* hands the chunk to the
\* consumer of router.stream; without a chunk it is back at reader.read()
Yield(r) ==
    /\ adapterOut' = adapterOut \o r.chunks
    /\ routerOut' = YieldStar(routerOut, r.chunks)
    /\ spc' = IF r.return THEN "done" ELSE "reading"
    /\ lines' = r.lines
    /\ atYield' = (r.chunks /= << >> /\ ~r.return)
    /\ seen' = [seen EXCEPT !.skipped = @ \/ r.skipped]

\* reader.read() gave the bytes rd: the loop over the lines runs to its first
\* yield
StreamRead(rd) ==
    /\ spc = "reading"
    /\ ~atYield
    /\ nreads < MaxReads
    /\ nreads' = nreads + 1
    /\ LET r == OnRead(StreamClass, buffer, rd)
       IN  /\ buffer' = r.buffer
           /\ Yield(r)
    /\ UNCHANGED <<adapterVars, storeVars, serverVars, routerVars, callVars, availVars, limiterVars, streamCalls, serror>>

\* the consumer calls next() on the generator suspended at a yield: the loop
\* goes on with the lines left of the same read
StreamNext ==
    /\ spc = "reading"
    /\ atYield
    /\ Yield(ForLines(StreamClass, lines, FALSE))
    /\ UNCHANGED <<adapterVars, storeVars, serverVars, routerVars, callVars, availVars, limiterVars, streamCalls, buffer, serror, nreads>>

\* the consumer calls return() on the generator suspended at a yield (a break
\* in its for await): no line left is looked at and no chunk follows
StreamReturn ==
    /\ spc = "reading"
    /\ atYield
    /\ spc' = "returned"
    /\ lines' = << >>
    /\ atYield' = FALSE
    /\ UNCHANGED <<adapterVars, storeVars, serverVars, routerVars, callVars, availVars, limiterVars, streamCalls, buffer, adapterOut, routerOut, serror, nreads, seen>>

\* reader.read() gave done: the loop breaks and the last chunk is yielded
StreamClose ==
    /\ spc = "reading"
    /\ ~atYield
    /\ adapterOut' = Append(adapterOut, Chunk("", TRUE))
    /\ routerOut' = YieldStar(routerOut, << Chunk("", TRUE) >>)
    /\ spc' = "done"
    /\ seen' = [seen EXCEPT !.eof = TRUE]
    /\ UNCHANGED <<adapterVars, storeVars, serverVars, routerVars, callVars, availVars, limiterVars, streamCalls, buffer, serror, nreads, lines, atYield>>

\* reader.read() rejected: the connection broke
StreamReadFails ==
    /\ spc = "reading"
    /\ ~atYield
    /\ StreamFails(ErrorOf(streamCalls[Len(streamCalls)].provider, 0, Len(streamCalls)))
    /\ UNCHANGED <<adapterVars, storeVars, serverVars, routerVars, callVars, availVars, limiterVars>>

\* routers with a default provider and one other provider as its fallback:
\* an OpenRouter adapter, an Ollama adapter, an alias of OpenRouter
StreamConfigs ==
    {[providers |-> << [type |-> df[1], enabled |-> "true"],
                       [type |-> df[2], enabled |-> "true"] >>,
      defaultProvider |-> df[1],
      fallbackChain |-> << df[2] >>,
      smartRouting |-> TRUE] :
        df \in {<<"openrouter", "ollama">>, <<"ollama", "openrouter">>,
                <<"anthropic", "ollama">>}}

StreamRequests ==
    {[model |-> Undefined, taskType |-> "summarization"],
     [model |-> "custom/model", taskType |-> Undefined]}

InitStream ==
    /\ \E config \in StreamConfigs :
          /\ router = LlmRouterNew(config).router
          /\ lastConfig = config
    /\ ctorError = ""
    /\ IdleCall

NextStream ==
    \/ \E req \in StreamRequests : stream(req)
    \/ StreamOpens
    \/ StreamOpenFails
    \/ \E rd \in Reads : StreamRead(rd)
    \/ StreamNext
    \/ StreamReturn
    \/ StreamClose
    \/ StreamReadFails

SpecStream == InitStream /\ [][NextStream]_vars

(***************************************************************************)
(* router.ts: checkAvailability.  The adapters are probed one after the    *)
(* other in the order of the provider map; each isAvailable() is awaited   *)
(* with no handler around it.  The provider map is private and holds only  *)
(* what createProvider made: adapters whose isAvailable catches the        *)
(* failure of its own fetch and answers false.                             *)
(***************************************************************************)

\* how the fetch of a probe ends: a response with ok true, one with ok
\* false, or a rejection (no connection, a timeout)
FetchOutcomes == {"ok", "not ok", "rejected"}

\* faulty variant: the adapter has no catch around its fetch
isAvailableRethrows(a, fetched) ==
    IF KeyMissing(a)
    THEN [raised |-> FALSE, value |-> FALSE, fetched |-> "no fetch"]
    ELSE [raised |-> fetched = "rejected", value |-> fetched = "ok", fetched |-> fetched]

\* OpenRouterProvider.isAvailable, OllamaProvider.isAvailable: without a key
\* OpenRouter answers false and fetches nothing; else the answer is
\* response.ok, and false from the catch block when the fetch rejected
isAvailable(a, fetched) ==
    IF KeyMissing(a)
    THEN [raised |-> FALSE, value |-> FALSE, fetched |-> "no fetch"]
    ELSE [raised |-> FALSE, value |-> fetched = "ok", fetched |-> fetched]

checkAvailability ==
    /\ router.built
    /\ apc = "idle"
    /\ apc' = "probing"
    /\ aidx' = 1
    /\ results' = << >>
    /\ probes' = << >>
    /\ aerror' = None
    /\ UNCHANGED <<adapterVars, storeVars, serverVars, routerVars, callVars, streamVars, limiterVars>>

\* results[type] = await provider.isAvailable(), its fetch ended as fetched;
\* were the promise rejected, the await would throw out of the loop
ProbeSettles(fetched) ==
    /\ apc = "probing"
    /\ LET r == isAvailable(router.providers[router.keys[aidx]], fetched)
       IN  /\ probes' = Append(probes, r.fetched)
           /\ IF r.raised
              THEN /\ apc' = "thrown"
                   /\ aerror' = ErrorOf(router.keys[aidx], 0, aidx)
                   /\ UNCHANGED <<aidx, results>>
              ELSE /\ results' = [k \in DOMAIN results \cup {router.keys[aidx]} |->
                                     IF k = router.keys[aidx] THEN r.value ELSE results[k]]
                   /\ IF aidx = Len(router.keys)
                      THEN apc' = "returned" /\ aidx' = aidx
                      ELSE apc' = "probing" /\ aidx' = aidx + 1
                   /\ aerror' = None
    /\ UNCHANGED <<adapterVars, storeVars, serverVars, routerVars, callVars, streamVars, limiterVars>>

\* the routers whose adapters are probed: every provider enabled, with or
\* without an API key
AvailConfigs ==
    [providers : SeqUpTo([type : CallTypes, enabled : {"true"},
                          apiKey : {Undefined, "sk-key"}], MaxProviders),
     defaultProvider : CallTypes,
     fallbackChain : {<< >>},
     smartRouting : BOOLEAN]

InitAvail ==
    /\ \E config \in AvailConfigs :
          /\ LlmRouterNew(config).router.built
          /\ router = LlmRouterNew(config).router
          /\ lastConfig = config
    /\ ctorError = ""
    /\ IdleCall

NextAvail ==
    \/ checkAvailability
    \/ \E fetched \in FetchOutcomes : ProbeSettles(fetched)

SpecAvail == InitAvail /\ [][NextAvail]_vars

(***************************************************************************)
(* rate-limiter.ts: RateLimiter.  Times are whole milliseconds.            *)
(***************************************************************************)
ClientIds == {"a", "b"}

\* the config the constructor stores; globalLimit is copied as given: << >>
\* when it is undefined, <<G>> when it is the number G
LimiterConfigs ==
    [maxRequests : 1..MaxRequests, windowMs : 1..MaxWindow, perClient : BOOLEAN,
     globalLimit : {<< >>}]

\* const key = this.config.perClient ? clientId : 'global'
KeyOf(clientId) == IF limiter.perClient THEN clientId ELSE "global"

Min(a, b) == IF a < b THEN a ELSE b

\* the bucket made for a key seen for the first time
FreshBucket == [tokens |-> limiter.maxRequests, lastRefill |-> now]

\* the triples <<timePassed, windowMs, maxRequests>>, among the values used
\* here, for which the double (timePassed / windowMs) * maxRequests lies just
\* below the whole number timePassed * maxRequests / windowMs: in doubles
\* (1 / 49) * 49 = 0.9999999999999999, (2 / 49) * 49 = 1.9999999999999998 and
\* (4 / 49) * 49 = 3.9999999999999996
RoundsBelow == {<<1, 49, 49>>, <<2, 49, 49>>, <<4, 49, 49>>}

\* faulty variant: a started token counts as a whole one
TokensToAddRoundsUp(bucket) ==
    LET timePassed == now - bucket.lastRefill
    IN  (timePassed * limiter.maxRequests + limiter.windowMs - 1) \div limiter.windowMs

\* Math.floor((timePassed / windowMs) * maxRequests), as the doubles give it:
\* the floor of the exact quotient, one less where the product rounds below
TokensToAdd(bucket) ==
    LET timePassed == now - bucket.lastRefill
        exact == (timePassed * limiter.maxRequests) \div limiter.windowMs
    IN  IF <<timePassed, limiter.windowMs, limiter.maxRequests>> \in RoundsBelow
        THEN exact - 1
        ELSE exact

\* faulty variant: the refill is not capped at maxRequests
RefillUncapped(bucket) ==
    IF TokensToAdd(bucket) > 0
    THEN [tokens |-> bucket.tokens + TokensToAdd(bucket), lastRefill |-> now]
    ELSE bucket

\* the refill: tokens are added, and lastRefill moved, only for a whole token
Refill(bucket) ==
    IF TokensToAdd(bucket) > 0
    THEN [tokens |-> Min(limiter.maxRequests, bucket.tokens + TokensToAdd(bucket)),
          lastRefill |-> now]
    ELSE bucket

\* faulty variant: an admitted request takes no token
ConsumeNothing(bucket) == bucket

\* bucket.tokens--
Consume(bucket) == [bucket EXCEPT !.tokens = @ - 1]

MapPut(m, k, v) == [x \in DOMAIN m \cup {k} |-> IF x = k THEN v ELSE m[x]]

\* faulty variant: delete empties the whole map
MapDeleteAll(m, k) == << >>

MapDelete(m, k) == [x \in DOMAIN m \ {k} |-> m[x]]

\* faulty variant: the token count is not looked at
HasTokenAlways(bucket) == TRUE

\* if (bucket.tokens > 0)
HasToken(bucket) == bucket.tokens > 0

\* the body of isAllowed, which runs without a suspension point: the bucket
\* is looked up or made, refilled, and a token is taken if there is one; the
\* call and its result are recorded in admitLog
Admit(clientId) ==
    /\ Len(admitLog) < MaxLog
    /\ LET key == KeyOf(clientId)
           fresh == key \notin DOMAIN buckets
           bucket == Refill(IF fresh THEN FreshBucket ELSE buckets[key])
           allowed == HasToken(bucket)
       IN  /\ buckets' = MapPut(buckets, key, IF allowed THEN Consume(bucket) ELSE bucket)
           /\ admitLog' = Append(admitLog,
                  [key |-> key, t |-> now, ok |-> allowed, fresh |-> fresh])
    /\ UNCHANGED limiter

\* what the isAllowed call of this step returned
Allowed == admitLog'[Len(admitLog')].ok

isAllowed(clientId) ==
    /\ Admit(clientId)
    /\ UNCHANGED now
    /\ lastReturn' = [op |-> "isAllowed", client |-> clientId,
                      value |-> [allowed |-> Allowed]]
    /\ UNCHANGED <<adapterVars, storeVars, serverVars, routerVars, callVars, streamVars, availVars>>

\* what getRemaining returns: bucket?.tokens ?? maxRequests
RemainingOf(clientId) ==
    IF KeyOf(clientId) \in DOMAIN buckets
    THEN buckets[KeyOf(clientId)].tokens
    ELSE limiter.maxRequests

getRemaining(clientId) ==
    /\ lastReturn' = [op |-> "getRemaining", client |-> clientId,
                      value |-> [tokens |-> RemainingOf(clientId)]]
    /\ UNCHANGED <<limiter, buckets, now, admitLog>>
    /\ UNCHANGED <<adapterVars, storeVars, serverVars, routerVars, callVars, streamVars, availVars>>

Max(a, b) == IF a > b THEN a ELSE b

\* a number of milliseconds that need not be whole: num / den
Ms(num, den) == [num |-> num, den |-> den]

\* faulty variant: the time already waited is not taken off
RetryAfterOfWholeToken(clientId) ==
    IF KeyOf(clientId) \notin DOMAIN buckets \/ buckets[KeyOf(clientId)].tokens > 0
    THEN Ms(0, limiter.maxRequests)
    ELSE Ms(limiter.windowMs, limiter.maxRequests)

\* what getRetryAfter returns: 0 without a bucket or with a token left, else
\* Math.max(0, windowMs / maxRequests - (Date.now() - lastRefill)), written
\* over the denominator maxRequests
RetryAfterOf(clientId) ==
    IF KeyOf(clientId) \notin DOMAIN buckets \/ buckets[KeyOf(clientId)].tokens > 0
    THEN Ms(0, limiter.maxRequests)
    ELSE Ms(Max(0, limiter.windowMs
                    - (now - buckets[KeyOf(clientId)].lastRefill) * limiter.maxRequests),
            limiter.maxRequests)

getRetryAfter(clientId) ==
    /\ lastReturn' = [op |-> "getRetryAfter", client |-> clientId,
                      value |-> RetryAfterOf(clientId)]
    /\ UNCHANGED <<limiter, buckets, now, admitLog>>
    /\ UNCHANGED <<adapterVars, storeVars, serverVars, routerVars, callVars, streamVars, availVars>>

reset(clientId) ==
    /\ buckets' = MapDelete(buckets, KeyOf(clientId))
    /\ lastReturn' = [op |-> "reset", client |-> clientId, value |-> None]
    /\ UNCHANGED <<limiter, now, admitLog>>
    /\ UNCHANGED <<adapterVars, storeVars, serverVars, routerVars, callVars, streamVars, availVars>>

clear ==
    /\ buckets' = << >>
    /\ lastReturn' = [op |-> "clear", client |-> Undefined, value |-> None]
    /\ UNCHANGED <<limiter, now, admitLog>>
    /\ UNCHANGED <<adapterVars, storeVars, serverVars, routerVars, callVars, streamVars, availVars>>

\* a millisecond passes
Tick ==
    /\ now < MaxTime
    /\ now' = now + 1
    /\ UNCHANGED <<limiter, buckets, admitLog, lastReturn>>
    /\ UNCHANGED <<adapterVars, storeVars, serverVars, routerVars, callVars, streamVars, availVars>>

InitLimiter ==
    /\ router = NoRouter
    /\ ctorError = ""
    /\ lastConfig = NoConfig
    /\ IdleCallOnly
    /\ IdleStream
    /\ IdleAvail
    /\ IdleStore
    /\ IdleServer
    /\ IdleAdapter
    /\ limiter \in LimiterConfigs
    /\ buckets = << >>
    /\ now = 0
    /\ admitLog = << >>
    /\ lastReturn = None

NextLimiter ==
    \/ \E clientId \in ClientIds : isAllowed(clientId)
    \/ \E clientId \in ClientIds : getRemaining(clientId)
    \/ \E clientId \in ClientIds : getRetryAfter(clientId)
    \/ \E clientId \in ClientIds : reset(clientId)
    \/ clear
    \/ Tick

SpecLimiter == InitLimiter /\ [][NextLimiter]_vars

\* isAllowed calls alone, as time goes by: no reset, no clear
NextAdmit ==
    \/ \E clientId \in ClientIds : isAllowed(clientId)
    \/ Tick

SpecAdmit == InitLimiter /\ [][NextAdmit]_vars

\* Date.now() is the wall clock: it can be set back
ClockBack ==
    /\ \E t \in 0..(now - 1) : now' = t
    /\ UNCHANGED <<limiter, buckets, admitLog, lastReturn>>
    /\ UNCHANGED <<adapterVars, storeVars, serverVars, routerVars, callVars, streamVars, availVars>>

\* one client's calls to the limiter under a clock that goes forward and back
NextClock ==
    \/ \E clientId \in {"a"} : isAllowed(clientId)
    \/ \E clientId \in {"a"} : getRemaining(clientId)
    \/ \E clientId \in {"a"} : getRetryAfter(clientId)
    \/ \E clientId \in {"a"} : reset(clientId)
    \/ clear
    \/ Tick
    \/ ClockBack

InitClock ==
    /\ router = NoRouter
    /\ ctorError = ""
    /\ lastConfig = NoConfig
    /\ IdleCallOnly
    /\ IdleStream
    /\ IdleAvail
    /\ IdleStore
    /\ IdleServer
    /\ IdleAdapter
    /\ limiter \in LimiterConfigs
    /\ buckets = << >>
    /\ now = 0
    /\ admitLog = << >>
    /\ lastReturn = None

SpecClock == InitClock /\ [][NextClock]_vars

\* a per-client limiter that was given a globalLimit
GlobalLimitConfigs ==
    [maxRequests : 1..MaxRequests, windowMs : 1..MaxWindow, perClient : {TRUE},
     globalLimit : {<<G>> : G \in 1..MaxRequests}]

InitGlobalLimit ==
    /\ router = NoRouter
    /\ ctorError = ""
    /\ lastConfig = NoConfig
    /\ IdleCallOnly
    /\ IdleStream
    /\ IdleAvail
    /\ IdleStore
    /\ IdleServer
    /\ IdleAdapter
    /\ limiter \in GlobalLimitConfigs
    /\ buckets = << >>
    /\ now = 0
    /\ admitLog = << >>
    /\ lastReturn = None

NextGlobalLimit ==
    \/ \E clientId \in ClientIds : isAllowed(clientId)
    \/ \E clientId \in ClientIds : getRemaining(clientId)
    \/ Tick

SpecGlobalLimit == InitGlobalLimit /\ [][NextGlobalLimit]_vars

\* a limiter of 49 requests per 49 ms beside the small ones: the smallest
\* maxRequests for which the time of one token, windowMs / maxRequests, is a
\* whole number of milliseconds and RoundsBelow applies to it
RefillConfigs ==
    {c \in LimiterConfigs : c.perClient}
        \cup {[maxRequests |-> 49, windowMs |-> 49, perClient |-> TRUE,
                globalLimit |-> << >>]}

\* client "a" has just used up its bucket: maxRequests admissions at time 0
InitRefill ==
    /\ router = NoRouter
    /\ ctorError = ""
    /\ lastConfig = NoConfig
    /\ IdleCallOnly
    /\ IdleStream
    /\ IdleAvail
    /\ IdleStore
    /\ IdleServer
    /\ IdleAdapter
    /\ limiter \in RefillConfigs
    /\ buckets = [k \in {"a"} |-> [tokens |-> 0, lastRefill |-> 0]]
    /\ now = 0
    /\ admitLog = << >>
    /\ lastReturn = None

NextRefill ==
    \/ \E clientId \in ClientIds : isAllowed(clientId)
    \/ \E clientId \in ClientIds : getRetryAfter(clientId)
    \/ Tick

SpecRefill == InitRefill /\ [][NextRefill]_vars

(***************************************************************************)
(* config.ts: ConfigStore.  An update (Partial<RouterConfig>) is a record  *)
(* of the fields it carries.                                               *)
(***************************************************************************)
ConfigFields == {"task_routes", "default_provider", "fallback_chain"}

\* values an update may carry: arrays, empty ones too, and provider names,
\* the empty string too
FullUpdates ==
    [task_routes : {<< >>, <<[task |-> "general", provider |-> "ollama",
                             model |-> "llama3.2", enabled |-> TRUE]>>},
     default_provider : {"", "ollama"},
     fallback_chain : {<< >>, <<"openrouter">>}]

Updates == {[f \in D |-> full[f]] : full \in FullUpdates, D \in SUBSET ConfigFields}

\* if (updates.f): the field is there and its value is truthy; an array is
\* truthy also when empty, a string only when not empty
Given(updates, f) ==
    /\ f \in DOMAIN updates
    /\ f = "default_provider" => updates[f] /= ""

\* faulty variant: every field is assigned, an absent one as an empty value
AppliedAssignsAll(config, updates) ==
    [f \in ConfigFields |->
        IF f \in DOMAIN updates THEN updates[f]
        ELSE IF f = "default_provider" THEN "" ELSE << >>]

\* the config after the three conditional assignments of updateConfig
Applied(config, updates) ==
    [f \in ConfigFields |-> IF Given(updates, f) THEN updates[f] ELSE config[f]]

\* structuredClone(this.config): an equal value
getConfig ==
    /\ storeReturn' = [op |-> "getConfig", before |-> storeConfig,
                       updates |-> << >>, value |-> storeConfig]
    /\ UNCHANGED <<storeConfig, storeLogs>>
    /\ UNCHANGED <<adapterVars, routerVars, callVars, streamVars, availVars, limiterVars, serverVars>>

updateConfig(updates) ==
    /\ storeConfig' = Applied(storeConfig, updates)
    /\ storeReturn' = [op |-> "updateConfig", before |-> storeConfig,
                       updates |-> updates, value |-> storeConfig']
    /\ UNCHANGED storeLogs
    /\ UNCHANGED <<adapterVars, routerVars, callVars, streamVars, availVars, limiterVars, serverVars>>

\* faulty variant: the log is never cut back
UnshiftKeepsAll(logs, log) == <<log>> \o logs

\* this.logs.unshift(log), cut back to maxLogs entries
Unshift(logs, log) ==
    IF Len(logs) + 1 > maxLogs
    THEN SubSeq(<<log>> \o logs, 1, maxLogs)
    ELSE <<log>> \o logs

InitStore ==
    /\ router = NoRouter
    /\ ctorError = ""
    /\ lastConfig = NoConfig
    /\ IdleCall

NextStore ==
    \/ getConfig
    \/ \E updates \in Updates : updateConfig(updates)

SpecStore == InitStore /\ [][NextStore]_vars

\* array.slice(0, end): a negative end counts from the end of the array
Slice0(logs, end) ==
    IF end >= 0 THEN SubSeq(logs, 1, Min(end, Len(logs)))
    ELSE SubSeq(logs, 1, Max(Len(logs) + end, 0))

\* the entries callers log: the id of each is one more than the newest id in
\* the log, so that ids tell the order of the addLog calls
NextLog ==
    [id |-> IF storeLogs = << >> THEN 1 ELSE storeLogs[1].id + 1,
     method |-> "complete", error |-> FALSE]

addLog(log) ==
    /\ storeLogs' = Unshift(storeLogs, log)
    /\ storeReturn' = [op |-> "addLog", before |-> storeLogs, log |-> log]
    /\ UNCHANGED storeConfig
    /\ UNCHANGED <<adapterVars, routerVars, callVars, streamVars, availVars, limiterVars, serverVars>>

\* getLogs(limit), and getLogs() with the default limit = 50
getLogs(limit) ==
    /\ storeReturn' = [op |-> "getLogs", before |-> storeLogs, limit |-> limit,
                       value |-> Slice0(storeLogs, IF limit = << >> THEN 50 ELSE limit[1])]
    /\ UNCHANGED <<storeConfig, storeLogs>>
    /\ UNCHANGED <<adapterVars, routerVars, callVars, streamVars, availVars, limiterVars, serverVars>>

clearLogs ==
    /\ storeLogs' = << >>
    /\ storeReturn' = [op |-> "clearLogs", before |-> storeLogs]
    /\ UNCHANGED storeConfig
    /\ UNCHANGED <<adapterVars, routerVars, callVars, streamVars, availVars, limiterVars, serverVars>>

\* the limits given to getLogs: none, and numbers around the sizes of the log
Limits ==
    {<< >>} \cup {<<l>> : l \in {-1, 0, 1, 50, maxLogs - 1, maxLogs, maxLogs + 1}}

NextLogs ==
    \/ /\ NextLog.id < maxLogs + MaxAdds
       /\ addLog(NextLog)
    \/ \E limit \in Limits : getLogs(limit)
    \/ clearLogs

SpecLogs == InitStore /\ [][NextLogs]_vars

(***************************************************************************)
(* The HTTP gateway: the rate limiting middleware of /complete and /route  *)
(* and the two handlers, and the handlers of the other endpoints that      *)
(* change the router, the config or the log.  A handler runs from one      *)
(* await to the next in one step; between the steps of one request those   *)
(* of the others may run.                                                  *)
(***************************************************************************)
Endpoints == {"complete", "route"}

\* createRateLimiter({ maxRequests: 60, windowMs: 60000, perClient: true })
ServerLimiter ==
    [maxRequests |-> 60, windowMs |-> 60000, perClient |-> TRUE, globalLimit |-> << >>]

\* if (!rateLimiter.isAllowed(clientId))
Rejected(allowed) == ~allowed

\* the log entry of a request: its id, the endpoint, and whether it holds an
\* error or a response
LogEntry(i, failed) == [id |-> i, method |-> reqs[i].endpoint, error |-> failed]

\* c.json({ success: false, error: 'Rate limit exceeded', retry_after_ms }, 429)
\* with the headers Retry-After and X-RateLimit-Remaining: '0'
TooMany(retryAfter) ==
    [status |-> 429, retry_after_ms |-> retryAfter, remaining |-> 0]

\* what router.complete resolves or rejects to is not looked at here
Answer(status, i) == [status |-> status, log_id |-> i]

\* ensureRouter() where createRouterFromEnv() does not throw: the gateway's
\* router, made from the environment if there was none
ensureRouter(current) == IF current = "null" THEN "env" ELSE current

\* what Date.now() returns to the calls of the middleware, never less than
\* the reading before: the time of one token of its limiter is 1000 ms
ClockReadings == {0, 1, 1000}

\* a request arrives.  The middleware asks the limiter and answers 429 itself
\* or calls next(); the handler then runs up to await c.req.json():
\* ensureRouter() makes the router from the environment if there is none, and
\* its error is caught, logged and answered with 500.  isAllowed reads the
\* clock as now; for the 429 answer getRetryAfter reads it again, as later
\* (an admitted request has no second reading)
Receive(i, endpoint, clientId, later) ==
    /\ reqs[i].pc = "idle"
    /\ \A j \in 1..(i - 1) : reqs[j].pc /= "idle"
    /\ later \in ClockReadings
    /\ later >= now
    /\ Admit(clientId)
    /\ Rejected(Allowed) \/ later = now
    /\ IF Rejected(Allowed)
       THEN /\ now' = later
            /\ lastReturn' = [op |-> "getRetryAfter", client |-> clientId,
                              value |-> RetryAfterOf(clientId)']
            /\ reqs' = [reqs EXCEPT ![i] =
                  [pc |-> "done", app |-> "api", endpoint |-> endpoint,
                   client |-> clientId, allowed |-> Allowed,
                   response |-> TooMany(RetryAfterOf(clientId)'),
                   router |-> Undefined, configures |-> gateway.configures,
                   prompt |-> Undefined]]
            /\ UNCHANGED <<gateway, storeLogs>>
       ELSE /\ now' = now
            /\ lastReturn' = [op |-> "getRemaining", client |-> clientId,
                              value |-> [tokens |-> RemainingOf(clientId)']]
            /\ IF gateway.router = "null" /\ ~gateway.env
               THEN /\ reqs' = [reqs EXCEPT ![i] =
                          [pc |-> "done", app |-> "api", endpoint |-> endpoint,
                           client |-> clientId, allowed |-> Allowed,
                           response |-> Answer(500, i),
                           router |-> Undefined, configures |-> gateway.configures,
                           prompt |-> Undefined]]
                    /\ storeLogs' = Unshift(storeLogs,
                          [id |-> i, method |-> endpoint, error |-> TRUE])
                    /\ UNCHANGED gateway
               ELSE /\ reqs' = [reqs EXCEPT ![i] =
                          [pc |-> "parsing", app |-> "api", endpoint |-> endpoint,
                           client |-> clientId, allowed |-> Allowed, response |-> None,
                           router |-> ensureRouter(gateway.router),
                           configures |-> gateway.configures,
                           prompt |-> Undefined]]
                    /\ gateway' = [gateway EXCEPT !.router = ensureRouter(@)]
                    /\ UNCHANGED storeLogs
    /\ UNCHANGED <<routerCalls, storeConfig, storeReturn>>
    /\ UNCHANGED <<adapterVars, routerVars, callVars, streamVars, availVars>>

\* what the body of a request holds as its prompt: /complete reads messages
\* and no prompt, /route reads body.prompt: a string, an array, or a value
\* without slice (a number, an object, null, or no such field)
Prompts(endpoint) ==
    IF endpoint = "route" THEN {"string", "array", "other"} ELSE {Undefined}

\* the body has been read: the request is built and r.complete(request) called
BodyParsed(i, prompt) ==
    /\ reqs[i].pc = "parsing"
    /\ reqs[i].app = "api"
    /\ prompt \in Prompts(reqs[i].endpoint)
    /\ reqs' = [reqs EXCEPT ![i].pc = "completing", ![i].prompt = prompt]
    /\ routerCalls' = Append(routerCalls, i)
    /\ UNCHANGED <<gateway, storeVars>>
    /\ UNCHANGED <<adapterVars, routerVars, callVars, streamVars, availVars, limiterVars>>

\* the catch block of a handler: the error is logged and answered with 500
Catch(i) ==
    /\ reqs' = [reqs EXCEPT ![i].pc = "done", ![i].response = Answer(500, i)]
    /\ storeLogs' = Unshift(storeLogs, LogEntry(i, TRUE))
    /\ UNCHANGED <<gateway, routerCalls, storeConfig, storeReturn>>
    /\ UNCHANGED <<adapterVars, routerVars, callVars, streamVars, availVars, limiterVars>>

\* the body cannot be used: c.req.json() rejects, or a field read throws
BodyRejects(i) ==
    /\ reqs[i].pc = "parsing"
    /\ reqs[i].app = "api"
    /\ Catch(i)

\* what r.complete resolves with as response.content: the adapters pass on
\* the content of the provider's reply, '' when it is falsy: a string, an
\* array, or a truthy value without slice (a number, an object, true)
Contents == {"string", "array", "other"}

\* building the log entry throws a TypeError: /route takes
\* body.prompt.slice(0, 100), and both handlers take
\* response.content.slice(0, 200); strings and arrays have slice
LogThrows(i, content) ==
    \/ reqs[i].endpoint = "route" /\ reqs[i].prompt \notin {"string", "array"}
    \/ content \notin {"string", "array"}

\* r.complete resolved: the response is logged and answered, or building the
\* log entry throws and the catch block logs the error and answers 500
CompleteResolves(i, content) ==
    /\ reqs[i].pc = "completing"
    /\ reqs[i].app = "api"
    /\ content \in Contents
    /\ IF LogThrows(i, content)
       THEN Catch(i)
       ELSE /\ reqs' = [reqs EXCEPT ![i].pc = "done", ![i].response = Answer(200, i)]
            /\ storeLogs' = Unshift(storeLogs, LogEntry(i, FALSE))
            /\ UNCHANGED <<gateway, routerCalls, storeConfig, storeReturn>>
            /\ UNCHANGED <<adapterVars, routerVars, callVars, streamVars, availVars, limiterVars>>

\* r.complete rejected
CompleteRejects(i) ==
    /\ reqs[i].pc = "completing"
    /\ reqs[i].app = "api"
    /\ Catch(i)

(***************************************************************************)
(* server.ts: the app this module exports, with a router variable of its   *)
(* own.  Its /complete and /route have no middleware: no limiter is asked  *)
(* and no log entry is written.                                            *)
(***************************************************************************)

\* c.json({ success, data | error }) and its status
ServerAnswer(status) == [status |-> status]

\* POST /complete, POST /route up to await c.req.json(): if (!router) the
\* router is made from the environment, or the answer is 500 when that throws
ServerReceive(i, endpoint, clientId) ==
    /\ reqs[i].pc = "idle"
    /\ \A j \in 1..(i - 1) : reqs[j].pc /= "idle"
    /\ IF gateway.server = "null" /\ ~gateway.env
       THEN /\ reqs' = [reqs EXCEPT ![i] =
                  [pc |-> "done", app |-> "server", endpoint |-> endpoint,
                   client |-> clientId, allowed |-> FALSE,
                   response |-> ServerAnswer(500),
                   router |-> Undefined, configures |-> gateway.configures,
                   prompt |-> Undefined]]
            /\ UNCHANGED gateway
       ELSE /\ reqs' = [reqs EXCEPT ![i] =
                  [pc |-> "parsing", app |-> "server", endpoint |-> endpoint,
                   client |-> clientId, allowed |-> FALSE, response |-> None,
                   router |-> Undefined, configures |-> gateway.configures,
                   prompt |-> Undefined]]
            /\ gateway' = [gateway EXCEPT !.server = ensureRouter(@)]
    /\ UNCHANGED <<routerCalls, storeVars>>
    /\ UNCHANGED <<adapterVars, routerVars, callVars, streamVars, availVars, limiterVars>>

\* the body has been read: router.complete(request), on the router the
\* module variable holds by now
ServerBodyParsed(i) ==
    /\ reqs[i].pc = "parsing"
    /\ reqs[i].app = "server"
    /\ reqs' = [reqs EXCEPT ![i].pc = "completing", ![i].router = gateway.server]
    /\ routerCalls' = Append(routerCalls, i)
    /\ UNCHANGED <<gateway, storeVars>>
    /\ UNCHANGED <<adapterVars, routerVars, callVars, streamVars, availVars, limiterVars>>

\* c.req.json() rejects or a field of the body cannot be read (500 from the
\* catch block); router.complete resolves (200) or rejects (500)
ServerSettles(i, status) ==
    /\ reqs[i].app = "server"
    /\ \/ reqs[i].pc = "parsing" /\ status = 500
       \/ reqs[i].pc = "completing" /\ status \in {200, 500}
    /\ reqs' = [reqs EXCEPT ![i].pc = "done", ![i].response = ServerAnswer(status)]
    /\ UNCHANGED <<gateway, routerCalls, storeVars>>
    /\ UNCHANGED <<adapterVars, routerVars, callVars, streamVars, availVars, limiterVars>>

\* the GET handlers that begin with ensureRouter()
RouterPaths ==
    {"/status", "/providers", "/providers/:type/models", "/providers/:type/status"}

\* a request to such a handler: the router it holds, the status of its
\* answer, 0 while it has none, and whether no catch block was entered.
\* From its catch block /status answers 200 with configured: false, the
\* others 500 with success: false
Got(path, thrown, current) ==
    [path |-> path,
     router |-> IF thrown THEN Undefined ELSE ensureRouter(current),
     status |-> IF ~thrown THEN 0 ELSE IF path = "/status" THEN 200 ELSE 500,
     ok |-> ~thrown]

\* GET /status, /providers, /providers/:type/models, /providers/:type/status
\* up to the first await: ensureRouter() makes the router from the
\* environment if there is none, and the handler waits for the router's
\* checkAvailability() or listAllModels(); or ensureRouter() throws and the
\* catch block answers
GetRouter(path) ==
    /\ gateway' = IF gateway.router = "null" /\ ~gateway.env
                  THEN [gateway EXCEPT !.got = Append(@, Got(path, TRUE, gateway.router)),
                                       !.others = @ + 1]
                  ELSE [gateway EXCEPT !.router = ensureRouter(@),
                                       !.got = Append(@, Got(path, FALSE, gateway.router)),
                                       !.others = @ + 1]
    /\ UNCHANGED <<reqs, routerCalls, storeVars>>
    /\ UNCHANGED <<adapterVars, routerVars, callVars, streamVars, availVars, limiterVars>>

\* the :type of a request: a provider listAllModels() has listed, a name it
\* has not, or a member of Object.prototype (constructor, __proto__,
\* toString), which allModels[providerType] finds in the results object
TypeParams == {"listed", "not listed", "prototype member"}

\* the names in a provider's list: OpenRouter lists fixed strings, Ollama
\* the name fields of the reply to /api/tags: strings, arrays (alone or
\* beside strings), or some value without includes (a number, an object,
\* true, null, a missing name)
ModelNames == {"strings", "arrays", "no includes"}

\* GET /providers/:type/models after listAllModels(): models.filter is no
\* function for a member of Object.prototype, m.includes is none for a name
\* that is neither a string nor an array; an unlisted type gives []
ModelsThrow(param, names) ==
    \/ param = "prototype member"
    \/ param = "listed" /\ names = "no includes"

\* what the handler awaited has settled (checkAvailability and listAllModels
\* do not reject): it answers 200 from the router it holds, or
\* /providers/:type/models throws on the list and its catch block answers
\* 500 with success: false (the other handlers call neither filter nor
\* includes: one :type and one list stand for all)
GetSettles(k, param, names) ==
    /\ k \in 1..Len(gateway.got)
    /\ gateway.got[k].status = 0
    /\ param \in TypeParams
    /\ names \in ModelNames
    /\ gateway.got[k].path /= "/providers/:type/models"
          => (param = "listed" /\ names = "strings")
    /\ gateway' = IF gateway.got[k].path = "/providers/:type/models" /\ ModelsThrow(param, names)
                  THEN [gateway EXCEPT !.got[k].status = 500, !.got[k].ok = FALSE]
                  ELSE [gateway EXCEPT !.got[k].status = 200]
    /\ UNCHANGED <<reqs, routerCalls, storeVars>>
    /\ UNCHANGED <<adapterVars, routerVars, callVars, streamVars, availVars, limiterVars>>

\* the bodies posted to /config: no field, and a default provider
ServerUpdates ==
    {u \in Updates :
        /\ DOMAIN u \subseteq {"default_provider"}
        /\ DOMAIN u /= {} => u.default_provider = "ollama"}

\* POST /config once its body has been read: configStore.updateConfig(updates)
PostConfig(updates) ==
    /\ storeConfig' = Applied(storeConfig, updates)
    /\ gateway' = [gateway EXCEPT !.others = @ + 1]
    /\ UNCHANGED <<reqs, routerCalls, storeLogs, storeReturn>>
    /\ UNCHANGED <<adapterVars, routerVars, callVars, streamVars, availVars, limiterVars>>

\* DELETE /logs: configStore.clearLogs()
DeleteLogs ==
    /\ storeLogs' = << >>
    /\ gateway' = [gateway EXCEPT !.others = @ + 1]
    /\ UNCHANGED <<reqs, routerCalls, storeConfig, storeReturn>>
    /\ UNCHANGED <<adapterVars, routerVars, callVars, streamVars, availVars, limiterVars>>

\* the requests the gateway has been given so far, to any endpoint
Arrived ==
    Cardinality({i \in Reqs : reqs[i].pc /= "idle"}) + gateway.others + gateway.configures

\* the buckets the limiter may hold when the requests arrive: for each
\* client none yet, or one with its last token or no token left
ServerBuckets ==
    UNION {[D -> [tokens : {0, 1}, lastRefill : {0}]] : D \in SUBSET ClientIds}

InitServer ==
    /\ router = NoRouter
    /\ ctorError = ""
    /\ lastConfig = NoConfig
    /\ IdleCallOnly
    /\ IdleStream
    /\ IdleAvail
    /\ IdleStore
    /\ IdleAdapter
    /\ limiter = ServerLimiter
    /\ buckets \in ServerBuckets
    /\ now = 0
    /\ admitLog = << >>
    /\ lastReturn = None
    /\ reqs = [i \in Reqs |-> NoReq]
    /\ gateway \in [router : {"null"}, server : {"null"}, env : BOOLEAN,
                    configures : {0}, answer : {None}, got : {<< >>}, others : {0}]
    /\ routerCalls = << >>


\* the bodies posted to /configure: one provider, and a default provider that
\* is or is not that provider; UnknownType is a type createProvider rejects
ConfigureBodies ==
    {c \in ConfigSpace({"ollama", UnknownType}, {<< >>}) :
        /\ Len(c.providers) = 1
        /\ c.providers[1].enabled = "true"
        /\ c.smartRouting}

\* the router made by /configure, named after its default provider
Configured(body) == "configured:" \o body.defaultProvider

\* faulty variant: the gateway's router is dropped before the new one is made
RouterAfterConfigureDropsOld(current, body) ==
    IF LlmRouterNew(body).error = "" THEN Configured(body) ELSE "null"

\* router = createRouter(body): the assignment is not reached when the
\* constructor throws
RouterAfterConfigure(current, body) ==
    IF LlmRouterNew(body).error = "" THEN Configured(body) ELSE current

\* the apps that serve /configure, /complete and /route: the gateway with
\* the limiter and the log, and the app of server.ts
Apps == {"api", "server"}

\* POST /configure of either app once its body has been read:
\* createRouter(body), assigned to the router variable of that module, and
\* the answer, 200 or, from the catch block, 500 with the error
Configure(app, body) ==
    /\ gateway.configures < MaxConfigures
    /\ app \in Apps
    /\ gateway' = [gateway EXCEPT
          !.configures = @ + 1,
          !.router = IF app = "api" THEN RouterAfterConfigure(@, body) ELSE @,
          !.server = IF app = "server" THEN RouterAfterConfigure(@, body) ELSE @,
          !.answer = [status |-> IF LlmRouterNew(body).error = "" THEN 200 ELSE 500,
                      error |-> LlmRouterNew(body).error,
                      body |-> body, app |-> app]]
    /\ UNCHANGED <<reqs, routerCalls, storeVars>>
    /\ UNCHANGED <<adapterVars, routerVars, callVars, streamVars, availVars, limiterVars>>

\* the requests of two clients to /complete and /route, and among them the
\* requests to the other endpoints that change the gateway or the store
NextServer ==
    \/ /\ Arrived < MaxInFlight
       /\ \E i \in Reqs, endpoint \in Endpoints, clientId \in ClientIds,
             later \in ClockReadings :
             Receive(i, endpoint, clientId, later)
    \/ \E i \in Reqs, prompt \in {Undefined, "string", "array", "other"} : BodyParsed(i, prompt)
    \/ \E i \in Reqs : BodyRejects(i)
    \/ \E i \in Reqs, content \in Contents : CompleteResolves(i, content)
    \/ \E i \in Reqs : CompleteRejects(i)
    \/ Arrived < MaxInFlight /\ \E path \in RouterPaths : GetRouter(path)
    \/ \E k \in 1..MaxInFlight, param \in TypeParams, names \in ModelNames :
          GetSettles(k, param, names)
    \/ Arrived < MaxInFlight /\ \E body \in ConfigureBodies : Configure("api", body)
    \/ Arrived < MaxInFlight /\ \E updates \in ServerUpdates : PostConfig(updates)
    \/ Arrived < MaxInFlight /\ DeleteLogs

SpecServer == InitServer /\ [][NextServer]_vars

\* a gateway that has just started: no bucket, no router
InitConfigure ==
    /\ router = NoRouter
    /\ ctorError = ""
    /\ lastConfig = NoConfig
    /\ IdleCallOnly
    /\ IdleStream
    /\ IdleAvail
    /\ IdleStore
    /\ IdleAdapter
    /\ limiter = ServerLimiter
    /\ buckets = << >>
    /\ now = 0
    /\ admitLog = << >>
    /\ lastReturn = None
    /\ reqs = [i \in Reqs |-> NoReq]
    /\ gateway \in [router : {"null"}, server : {"null"}, env : BOOLEAN,
                    configures : {0}, answer : {None}, got : {<< >>}, others : {0}]
    /\ routerCalls = << >>

\* one client's requests, and requests to /configure and to the other
\* endpoints in between
NextConfigure ==
    \/ /\ Arrived < MaxArrivals
       /\ \E i \in Reqs, endpoint \in Endpoints, clientId \in {"a"},
             later \in ClockReadings :
             Receive(i, endpoint, clientId, later)
    \/ \E i \in Reqs, prompt \in {Undefined, "string", "array", "other"} : BodyParsed(i, prompt)
    \/ \E i \in Reqs : BodyRejects(i)
    \/ \E i \in Reqs, content \in Contents : CompleteResolves(i, content)
    \/ \E i \in Reqs : CompleteRejects(i)
    \/ Arrived < MaxArrivals /\ \E body \in ConfigureBodies : Configure("api", body)
    \/ Arrived < MaxArrivals /\ \E path \in RouterPaths : GetRouter(path)
    \/ \E k \in 1..MaxArrivals, param \in TypeParams, names \in ModelNames :
          GetSettles(k, param, names)
    \/ Arrived < MaxArrivals /\ \E updates \in ServerUpdates : PostConfig(updates)
    \/ Arrived < MaxArrivals /\ DeleteLogs

SpecConfigure == InitConfigure /\ [][NextConfigure]_vars

\* server.ts: the requests to the app it exports, which has just started
NextServerTs ==
    \/ /\ Arrived < MaxArrivals
       /\ \E i \in Reqs, endpoint \in Endpoints, clientId \in ClientIds :
             ServerReceive(i, endpoint, clientId)
    \/ \E i \in Reqs : ServerBodyParsed(i)
    \/ \E i \in Reqs, status \in {200, 500} : ServerSettles(i, status)
    \/ Arrived < MaxArrivals
          /\ \E body \in ConfigureBodies : Configure("server", body)

SpecServerTs == InitConfigure /\ [][NextServerTs]_vars

(***************************************************************************)
(* Properties of construction (SpecCtor).                                  *)
(***************************************************************************)
Constructed == lastConfig /= NoConfig

\* some entry of the default provider's type is enabled
HasEnabledDefault(config) ==
    \E i \in 1..Len(config.providers) :
        /\ config.providers[i].type = config.defaultProvider
        /\ config.providers[i].enabled /= "false"

\* some enabled entry has a type createProvider does not know
HasEnabledUnknown(config) ==
    \E i \in 1..Len(config.providers) :
        /\ config.providers[i].type \notin ProviderTypes
        /\ config.providers[i].enabled /= "false"

ConstructionFailed == ~router.built /\ ctorError /= ""

\* C3 as stated: construction fails whenever the default provider has no
\* enabled entry, and succeeds whenever an enabled entry of a known type
\* matches the default provider.
C3_AsStated ==
    Constructed =>
        /\ ~HasEnabledDefault(lastConfig) => ConstructionFailed
        /\ (HasEnabledDefault(lastConfig) /\ lastConfig.defaultProvider \in ProviderTypes)
              => (router.built /\ ctorError = "")

\* C3 amended: construction fails (an error, no router) whenever the default
\* provider has no enabled entry and whenever an enabled entry has an
\* unknown type; it succeeds exactly when an enabled entry matches the
\* default provider and every enabled entry has a known type, and the
\* router then holds an adapter for the default provider.
C3_ConstructionOutcome ==
    Constructed =>
        /\ ~HasEnabledDefault(lastConfig) => ConstructionFailed
        /\ HasEnabledUnknown(lastConfig) => ConstructionFailed
        /\ (HasEnabledDefault(lastConfig) /\ ~HasEnabledUnknown(lastConfig))
              => /\ router.built
                 /\ ctorError = ""
                 /\ lastConfig.defaultProvider \in DOMAIN router.providers

\* a config whose only entry of the default type is disabled was rejected,
\* although another provider is enabled
C3_Witness ==
    /\ Constructed
    /\ ConstructionFailed
    /\ ~HasEnabledDefault(lastConfig)
    /\ ~HasEnabledUnknown(lastConfig)
    /\ \E i \in 1..Len(lastConfig.providers) :
          /\ lastConfig.providers[i].type = lastConfig.defaultProvider
          /\ lastConfig.providers[i].enabled = "false"
    /\ \E i \in 1..Len(lastConfig.providers) :
          lastConfig.providers[i].enabled = "true"

(***************************************************************************)
(* Properties of complete (SpecCall; C5 under SpecSelect).                 *)
(***************************************************************************)
Chain == router.fallbackChain

\* a chain entry the claim calls eligible: not the default, and configured
Eligible(j) ==
    /\ Chain[j] /= router.defaultProvider
    /\ Chain[j] \in DOMAIN router.providers

Tried(j, outcome) ==
    \E n \in 2..Len(invocations) :
        /\ invocations[n].entry = j
        /\ invocations[n].provider = Chain[j]
        /\ invocations[n].outcome = outcome

\* C1: when the default adapter failed and the call returned, the result is
\* the response of the first eligible chain entry whose complete succeeded,
\* every earlier eligible entry was tried and failed, and no error of the
\* default or of an earlier entry is what the caller gets.
C1_FirstSuccessfulFallback ==
    (pc = "returned" /\ caught /= None) =>
        \E j \in 1..Len(Chain) :
            /\ Eligible(j)
            /\ \E n \in 2..Len(invocations) :
                  /\ invocations[n].entry = j
                  /\ invocations[n].provider = Chain[j]
                  /\ invocations[n].outcome = "ok"
                  /\ result = invocations[n].value
                  /\ result = Response(router, Chain[j], ncalls, n)
            /\ \A k \in 1..(j - 1) : Eligible(k) => Tried(k, "fail")
            /\ result.kind = "response"
            /\ \A n \in 1..Len(invocations) :
                  invocations[n].outcome = "fail" => result /= invocations[n].value

\* the default failed, one fallback failed, the next one answered
C1_Witness ==
    /\ pc = "returned"
    /\ caught /= None
    /\ Len(invocations) = 3
    /\ invocations[2].outcome = "fail"
    /\ invocations[3].outcome = "ok"
    /\ result = invocations[3].value

\* C2: when the default adapter and every eligible fallback failed, the call
\* throws the very error the default adapter threw, whatever the chain.
C2_ThrowsPrimaryError ==
    pc = "thrown" =>
        /\ invocations[1].entry = 0
        /\ invocations[1].provider = router.defaultProvider
        /\ invocations[1].outcome = "fail"
        /\ result = invocations[1].value
        /\ result = ErrorOf(router.defaultProvider, ncalls, 1)
        /\ \A j \in 1..Len(Chain) : Eligible(j) => Tried(j, "fail")
        /\ \A n \in 2..Len(invocations) : result /= invocations[n].value

\* the default and two fallbacks failed and the caller got the default's error
C2_Witness ==
    /\ pc = "thrown"
    /\ Len(invocations) = 3
    /\ result = invocations[1].value
    /\ result /= invocations[3].value

\* the chain is empty and the caller got the default's error
C2_WitnessEmptyChain ==
    /\ pc = "thrown"
    /\ Chain = << >>
    /\ result = invocations[1].value

TimesInvoked(key) ==
    Cardinality({n \in 1..Len(invocations) : invocations[n].provider = key})

TimesInChain(key) ==
    Cardinality({j \in 1..Len(Chain) : Chain[j] = key})

\* C4 as stated: within one call no adapter's complete is invoked more than
\* once, also when the chain lists a provider several times.
C4_AsStated ==
    \A key \in DOMAIN router.providers : TimesInvoked(key) <= 1

\* C4 amended: within one call the default adapter is invoked exactly once,
\* also when the chain contains the default provider, and every chain entry
\* leads to at most one invocation, so another adapter is invoked at most as
\* many times as the chain lists its identifier.
C4_OncePerChainEntry ==
    pc /= "idle" =>
        /\ TimesInvoked(router.defaultProvider) = 1
        /\ \A key \in DOMAIN router.providers :
              key /= router.defaultProvider => TimesInvoked(key) <= TimesInChain(key)
        /\ \A n, k \in 1..Len(invocations) :
              n < k => invocations[n].entry < invocations[k].entry

\* a chain that lists one fallback twice and also the default: the fallback
\* was invoked twice, the default once
C4_Witness ==
    /\ pc = "thrown"
    /\ \E key \in DOMAIN router.providers :
          /\ key /= router.defaultProvider
          /\ TimesInvoked(key) = 2
    /\ TimesInChain(router.defaultProvider) = 1
    /\ TimesInvoked(router.defaultProvider) = 1

\* C5: with smart routing on, a task type and no explicit model, the
\* request's model becomes the recommendation for the task type (a non-empty
\* model for each of the seven task types); an explicit model is kept for
\* every task type and both settings; with smart routing off or no task type
\* the model is left as it was.  The task type itself is never changed.
C5_ModelSelection ==
    pc /= "idle" =>
        /\ request.taskType = asked.taskType
        /\ (router.smartRouting /\ asked.taskType \in TaskTypes /\ ~Truthy(asked.model))
              => /\ request.model = TASK_MODEL_RECOMMENDATIONS[asked.taskType]
                 /\ Truthy(request.model)
        /\ Truthy(asked.model) => request.model = asked.model
        /\ (~router.smartRouting \/ asked.taskType \notin TaskTypes)
              => request.model = asked.model

\* smart routing gave a summarization request without a model the haiku model
C5_Witness ==
    /\ pc /= "idle"
    /\ router.smartRouting
    /\ asked.taskType = "summarization"
    /\ asked.model = Undefined
    /\ request.model = "anthropic/claude-3-haiku"

\* an explicit model survived smart routing with a task type
C5_WitnessExplicit ==
    /\ pc /= "idle"
    /\ router.smartRouting
    /\ asked.taskType = "reasoning"
    /\ asked.model = "custom/model"
    /\ request.model = "custom/model"

(***************************************************************************)
(* Properties of stream (SpecStream).                                      *)
(***************************************************************************)
\* the state part of C6: one adapter called, the default's; a failed stream
\* holds the adapter's error and the adapter's chunks, none of them final
C6_StreamState ==
    /\ spc /= "idle" =>
          /\ Len(streamCalls) = 1
          /\ streamCalls[1].provider = router.defaultProvider
          /\ invocations = << >>
    /\ spc = "failed" =>
          /\ serror = ErrorOf(router.defaultProvider, 0, 1)
          /\ routerOut = adapterOut
          /\ \A i \in 1..Len(routerOut) : ~routerOut[i].done
    /\ spc /= "failed" => serror = None

\* C6: stream calls the default provider's adapter and no other; when that
\* adapter's stream fails, before the first chunk or later, the caller gets
\* the adapter's error as the end of the stream, the chunks yielded so far
\* are the adapter's, and from then on no adapter is called and no chunk is
\* yielded.
C6_StreamNoFallback ==
    /\ [](C6_StreamState)
    /\ [][spc = "failed" =>
             (spc' = "failed" /\ routerOut' = routerOut /\ streamCalls' = streamCalls)]_vars

\* the stream broke after a chunk, with a fallback provider configured
C6_Witness ==
    /\ spc = "failed"
    /\ Len(routerOut) >= 1
    /\ NextFallback(router, 1) /= 0
    /\ serror.by = router.defaultProvider

\* C7: the chunks router.stream has yielded are at every moment the chunks
\* the adapter's stream has yielded, in the same order, and no chunk follows
\* a chunk with done=true.
C7_StreamRelay ==
    /\ routerOut = adapterOut
    /\ \A i \in 1..Len(routerOut) : routerOut[i].done => i = Len(routerOut)

\* "Hel" and "lo" were two lines of one read, handed over one by one, and the
\* final chunk came after them
C7_Witness ==
    /\ spc = "done"
    /\ nreads = 1
    /\ adapterOut = << Chunk("Hel", FALSE), Chunk("lo", FALSE), Chunk("", TRUE) >>
    /\ routerOut = << Chunk("Hel", FALSE), Chunk("lo", FALSE), Chunk("", TRUE) >>

\* C8: a stream over the OpenRouter or Ollama adapter that ended without
\* error has yielded exactly one chunk with done=true, that chunk is the last
\* and has empty content, and every chunk before it has done=false and
\* non-empty content, whatever lines the body held.  At every moment a chunk
\* with done=true is the last one and empty and every other chunk has content;
\* a stream its consumer gave up with return() has had no chunk with done=true.
C8_TerminalChunk ==
    LET n == Len(routerOut)
    IN  /\ \A i \in 1..n :
              IF routerOut[i].done
              THEN i = n /\ routerOut[i].content = "" /\ spc = "done"
              ELSE routerOut[i].content /= ""
        /\ spc = "done" =>
              /\ n >= 1
              /\ routerOut[n] = Chunk("", TRUE)
              /\ Cardinality({i \in 1..n : routerOut[i].done}) = 1

\* a body with a skipped line that closed without a terminal marker
C8_Witness ==
    /\ spc = "done"
    /\ seen.skipped
    /\ seen.eof
    /\ Len(routerOut) >= 2
    /\ buffer /= << >>

(***************************************************************************)
(* Properties of checkAvailability (SpecAvail).                            *)
(***************************************************************************)
\* C9: checkAvailability never raises; when it returns, it holds one boolean
\* for every configured adapter: true for an adapter whose probe was answered
\* with ok, false for one whose probe failed (no key, a response that is not
\* ok, a fetch that rejected), and the adapters after a failed probe have
\* been probed as well.
C9_NeverRaises ==
    /\ apc /= "thrown"
    /\ apc = "returned" =>
          /\ DOMAIN results = DOMAIN router.providers
          /\ \A k \in DOMAIN results : results[k] \in BOOLEAN
          /\ Len(probes) = Len(router.keys)
          /\ \A j \in 1..Len(router.keys) :
                results[router.keys[j]] = (probes[j] = "ok")

\* two adapters: the fetch of the first probe rejected and it is reported
\* false, the second was still probed and is reported true
C9_Witness ==
    /\ apc = "returned"
    /\ Len(router.keys) = 2
    /\ probes = <<"rejected", "ok">>
    /\ results[router.keys[1]] = FALSE
    /\ results[router.keys[2]] = TRUE

(***************************************************************************)
(* Properties of the RateLimiter (SpecLimiter).                            *)
(***************************************************************************)
\* the isAllowed calls for the key of call i, from call i to call j
SameKey(i, j) == {k \in i..j : admitLog[k].key = admitLog[i].key}

\* C10: from the call that creates a bucket, as long as no time passes and
\* the bucket is not evicted, exactly the first maxRequests calls for the key
\* are admitted.
C10_FirstBurst ==
    \A i \in 1..Len(admitLog) : \A j \in i..Len(admitLog) :
        ( /\ admitLog[i].fresh
          /\ admitLog[j].key = admitLog[i].key
          /\ \A k \in SameKey(i, j) :
                /\ admitLog[k].t = admitLog[i].t
                /\ k > i => ~admitLog[k].fresh )
        => (admitLog[j].ok <=> Cardinality(SameKey(i, j)) <= limiter.maxRequests)

\* two requests admitted and the third refused at the same instant
C10_Witness ==
    /\ limiter.maxRequests = 2
    /\ Len(admitLog) = 3
    /\ admitLog[1].fresh /\ admitLog[1].ok
    /\ admitLog[2].key = admitLog[1].key /\ admitLog[2].ok
    /\ admitLog[3].key = admitLog[1].key /\ ~admitLog[3].ok
    /\ admitLog[3].t = admitLog[1].t
    /\ ~admitLog[2].fresh /\ ~admitLog[3].fresh

\* C20: in one complete call the adapters are invoked one after another, the
\* default first and then the chain in its order: a fallback is invoked only
\* after the default and every earlier eligible chain entry failed in this
\* call, at most one adapter call is pending at a time, and after a success
\* of the default no fallback is invoked.
C20_OneAfterAnother ==
    pc /= "idle" =>
        /\ invocations[1].entry = 0
        /\ invocations[1].provider = router.defaultProvider
        /\ \A n \in 2..Len(invocations) :
              /\ invocations[n].entry \in 1..Len(Chain)
              /\ Eligible(invocations[n].entry)
              /\ invocations[n].provider = Chain[invocations[n].entry]
              /\ \A k \in 1..(invocations[n].entry - 1) :
                    Eligible(k) => \E m \in 2..(n - 1) :
                                      /\ invocations[m].entry = k
                                      /\ invocations[m].outcome = "fail"
        /\ \A n \in 1..(Len(invocations) - 1) : invocations[n].outcome = "fail"
        /\ Cardinality({n \in 1..Len(invocations) :
                           invocations[n].outcome = "pending"}) <= 1
        /\ invocations[1].outcome = "ok" => Len(invocations) = 1

\* the default and the first fallback have failed and the call to the second
\* fallback is the only one pending
C20_Witness ==
    /\ pc = "awaitFallback"
    /\ Len(invocations) = 3
    /\ invocations[1].outcome = "fail"
    /\ invocations[2].outcome = "fail"
    /\ invocations[3].outcome = "pending"
    /\ invocations[2].entry < invocations[3].entry

(***************************************************************************)
(* Properties of the limiter's reads, reset and refill.                    *)
(***************************************************************************)
\* the step is a limiter call that differs from the last one or in what it
\* returned
Called == lastReturn' /= None /\ lastReturn' /= lastReturn

\* the step is such a call of op
Returned(op) == Called /\ lastReturn'.op = op

\* the step is an isAllowed call
Asked == Len(admitLog') = Len(admitLog) + 1

LastAsked == admitLog'[Len(admitLog')]

\* the time of the last isAllowed call for key, -1 without one
LastCallAt(key) ==
    LET S == {i \in 1..Len(admitLog) : admitLog[i].key = key}
    IN  IF S = {} THEN -1 ELSE admitLog[CHOOSE i \in S : \A j \in S : j <= i].t

\* at least windowMs / maxRequests milliseconds lie between since and now
TokenTimePassed(since) ==
    (now - since) * limiter.maxRequests >= limiter.windowMs

\* C11 as stated: once a client's bucket has been emptied by isAllowed calls
\* and at least windowMs / maxRequests milliseconds have passed with no
\* further isAllowed call for that key, getRemaining returns at least 1.
C11_RemainingAfterWait ==
    [][\A c \in ClientIds :
          ( /\ Returned("getRemaining")
            /\ lastReturn'.client = c
            /\ KeyOf(c) \in DOMAIN buckets
            /\ buckets[KeyOf(c)].tokens = 0
            /\ LastCallAt(KeyOf(c)) >= 0
            /\ TokenTimePassed(LastCallAt(KeyOf(c))) )
          => lastReturn'.value.tokens >= 1]_vars

\* in global mode every client id resolves to the one bucket
C12_OneBucket ==
    ~limiter.perClient =>
        /\ DOMAIN buckets \subseteq {"global"}
        /\ \A a, b \in ClientIds :
              /\ RemainingOf(a) = RemainingOf(b)
              /\ RetryAfterOf(a) = RetryAfterOf(b)

\* in per-client mode a call for one client leaves the others' buckets alone
C12_OthersUntouched ==
    (limiter.perClient /\ Called)
    => \A b \in ClientIds \ {lastReturn'.client} :
          /\ b \in DOMAIN buckets' <=> b \in DOMAIN buckets
          /\ b \in DOMAIN buckets => buckets'[b] = buckets[b]

\* C12: in global mode getRemaining and getRetryAfter return the same for
\* every client id and each admission lowers by one the remaining tokens
\* every other client sees; in per-client mode a call for client a never
\* changes the bucket of a different client b.  (getRemaining does not count
\* the tokens due since the last refill, so before an admission that refills
\* it returns less than the bucket is worth, and no less after it.)
C12_AsStated ==
    /\ [](C12_OneBucket)
    /\ [][/\ (~limiter.perClient /\ Asked /\ LastAsked.ok)
              => \A b \in ClientIds : RemainingOf(b)' = RemainingOf(b) - 1
           /\ C12_OthersUntouched]_vars

\* C13: getRemaining and getRetryAfter change no bucket and create none; for
\* a key without a bucket getRemaining returns maxRequests and getRetryAfter
\* 0; for an empty bucket getRetryAfter returns
\* max(0, windowMs / maxRequests - time since lastRefill).
C13_ReadOnly ==
    [][\A c \in ClientIds :
          /\ (Returned("getRemaining") /\ lastReturn'.client = c)
             => /\ buckets' = buckets
                /\ KeyOf(c) \notin DOMAIN buckets
                      => lastReturn'.value.tokens = limiter.maxRequests
          /\ (Returned("getRetryAfter") /\ lastReturn'.client = c)
             => /\ buckets' = buckets
                /\ lastReturn'.value.den = limiter.maxRequests
                /\ KeyOf(c) \notin DOMAIN buckets => lastReturn'.value.num = 0
                /\ (KeyOf(c) \in DOMAIN buckets /\ buckets[KeyOf(c)].tokens = 0)
                      => lastReturn'.value.num =
                            Max(0, limiter.windowMs
                                   - limiter.maxRequests
                                       * (now - buckets[KeyOf(c)].lastRefill))]_vars

\* getRetryAfter was asked for an empty bucket part of the way to its next
\* token, and the bucket is as it was
C13_Witness ==
    /\ lastReturn /= None
    /\ lastReturn.op = "getRetryAfter"
    /\ KeyOf(lastReturn.client) \in DOMAIN buckets
    /\ buckets[KeyOf(lastReturn.client)].tokens = 0
    /\ now > buckets[KeyOf(lastReturn.client)].lastRefill
    /\ lastReturn.value.num > 0
    /\ lastReturn.value.num < limiter.windowMs

\* C14: reset(clientId) removes the bucket of that client's key and no other,
\* clear() removes every bucket, and the next isAllowed for a key without a
\* bucket is admitted from a full one: getRemaining is then maxRequests - 1.
C14_Evict ==
    [][/\ Returned("reset")
          => /\ DOMAIN buckets' = DOMAIN buckets \ {KeyOf(lastReturn'.client)}
             /\ \A k \in DOMAIN buckets' : buckets'[k] = buckets[k]
       /\ Returned("clear") => buckets' = << >>
       /\ (Asked /\ LastAsked.key \notin DOMAIN buckets)
          => /\ LastAsked.ok
             /\ \A c \in ClientIds :
                   lastReturn'.client = c
                   => RemainingOf(c)' = limiter.maxRequests - 1]_vars

\* a key whose only token was used is admitted again at the same moment,
\* from a fresh bucket, while another client's bucket is still there
C14_Witness ==
    /\ limiter.perClient
    /\ limiter.maxRequests = 1
    /\ Len(admitLog) = 3
    /\ admitLog[1].key = "a" /\ admitLog[1].ok
    /\ admitLog[2].key = "b" /\ admitLog[2].ok
    /\ admitLog[3].key = "a" /\ admitLog[3].ok /\ admitLog[3].fresh
    /\ admitLog[3].t = admitLog[1].t
    /\ "b" \in DOMAIN buckets

\* C16 as stated: with globalLimit = G on a per-client limiter, the requests
\* admitted over all client ids while no time passes never exceed G.
C16_GlobalCeiling ==
    (limiter.perClient /\ limiter.globalLimit /= << >>)
    => \A t \in 0..MaxTime :
          Cardinality({i \in 1..Len(admitLog) : admitLog[i].ok /\ admitLog[i].t = t})
              <= limiter.globalLimit[1]

\* C19 as stated: isAllowed moves a bucket's lastRefill only in a call that
\* adds a whole token, and a call for an empty bucket made at least
\* windowMs / maxRequests after its lastRefill is admitted.
C19_NotStarved ==
    [][\A k \in DOMAIN buckets :
          (Asked /\ LastAsked.key = k)
          => /\ buckets'[k].lastRefill /= buckets[k].lastRefill
                  => (now - buckets[k].lastRefill) * limiter.maxRequests
                        >= limiter.windowMs
             /\ (buckets[k].tokens = 0 /\ TokenTimePassed(buckets[k].lastRefill))
                  => LastAsked.ok]_vars

(***************************************************************************)
(* Properties of the ConfigStore (SpecStore).                              *)
(***************************************************************************)
\* C17: updateConfig changes only fields the update carries: a field that is
\* absent from the update is afterwards what getConfig gave before, so an
\* empty update changes none of task_routes, default_provider and
\* fallback_chain and an update of one field leaves the other two; the value
\* returned is the resulting configuration.
C17_OnlyGivenFields ==
    (storeReturn /= None /\ storeReturn.op = "updateConfig")
    => /\ \A f \in ConfigFields \ DOMAIN storeReturn.updates :
             storeReturn.value[f] = storeReturn.before[f]
       /\ DOMAIN storeReturn.value = ConfigFields
       /\ storeReturn.value = storeConfig

\* an update of default_provider alone has been applied to a config whose
\* other two fields were no longer the defaults, and it changed the provider
C17_Witness ==
    /\ storeReturn /= None
    /\ storeReturn.op = "updateConfig"
    /\ DOMAIN storeReturn.updates = {"default_provider"}
    /\ storeReturn.value.default_provider /= storeReturn.before.default_provider
    /\ storeReturn.before.task_routes /= DEFAULT_CONFIG.task_routes
    /\ storeReturn.before.fallback_chain /= DEFAULT_CONFIG.fallback_chain

(***************************************************************************)
(* Properties of the gateway (SpecServer).                                 *)
(***************************************************************************)
InRouterCalls(i) == \E n \in 1..Len(routerCalls) : routerCalls[n] = i

Logged(i) == \E n \in 1..Len(storeLogs) : storeLogs[n].id = i

\* C15: on /complete and /route router.complete is called for a request only
\* after isAllowed returned true for its client id; a request the limiter
\* rejects is answered with 429 and a retry-after hint, never reaches the
\* router and adds no request-log entry.  (The requests to the app of
\* server.ts reach router.complete and no limiter is asked.)
C15_LimiterFirst ==
    \A i \in Reqs :
        /\ InRouterCalls(i) => reqs[i].allowed
        /\ (reqs[i].app = "api" /\ ~reqs[i].allowed)
           => /\ reqs[i].pc = "done"
              /\ reqs[i].response.status = 429
              /\ "retry_after_ms" \in DOMAIN reqs[i].response
              /\ ~InRouterCalls(i)
              /\ ~Logged(i)

\* the same of the requests to the gateway that has the middleware
LimiterFirstInGateway ==
    \A i \in Reqs :
        reqs[i].app = "api" =>
           /\ InRouterCalls(i) => reqs[i].allowed
           /\ ~reqs[i].allowed
              => /\ reqs[i].pc = "done"
                 /\ reqs[i].response.status = 429
                 /\ "retry_after_ms" \in DOMAIN reqs[i].response
                 /\ ~InRouterCalls(i)
                 /\ ~Logged(i)

\* admissions recorded for key
AdmittedFor(log, key) ==
    Cardinality({n \in 1..Len(log) : log[n].key = key /\ log[n].ok})

\* the step is an isAllowed call for key k that refills its bucket
RefillsIn(k) ==
    /\ Len(admitLog') = Len(admitLog) + 1
    /\ admitLog'[Len(admitLog')].key = k
    /\ k \in DOMAIN buckets
    /\ TokensToAdd(buckets[k]) > 0

\* C18: however the requests for one bucket key interleave, with k tokens in
\* the bucket and no refill at most k of them are admitted: no token count
\* goes below zero, and every step that refills nothing takes from a bucket
\* exactly one token for each request it admits; a step that refills takes
\* them from the refilled bucket.
C18_NoOverAdmission ==
    /\ [](\A k \in DOMAIN buckets : buckets[k].tokens >= 0)
    /\ [][\A k \in DOMAIN buckets' :
             ~RefillsIn(k) =>
                buckets'[k].tokens + AdmittedFor(admitLog', k)
                   = (IF k \in DOMAIN buckets THEN buckets[k].tokens
                                              ELSE limiter.maxRequests)
                     + AdmittedFor(admitLog, k)]_vars
    /\ [][\A k \in DOMAIN buckets' :
             RefillsIn(k) =>
                buckets'[k].tokens + AdmittedFor(admitLog', k)
                   = Refill(buckets[k]).tokens + AdmittedFor(admitLog, k)]_vars

\* a request was rejected while an admitted request of the same client,
\* which took the last token, was still waiting for the router
C18_Witness ==
    \E i, j \in Reqs :
        /\ i < j
        /\ reqs[i].client = reqs[j].client
        /\ reqs[i].app = "api" /\ reqs[j].app = "api"
        /\ reqs[i].allowed /\ reqs[i].pc = "completing"
        /\ reqs[j].pc = "done" /\ ~reqs[j].allowed
        /\ AdmittedFor(admitLog, reqs[i].client) = 1


(***************************************************************************)
(* C21.  No memory between calls.                                          *)
(***************************************************************************)
\* the adapters a call reaches when each one fails: the default, then the
\* eligible chain entries in chain order
Route ==
    <<router.defaultProvider>> \o
    [n \in 1..Cardinality({j \in 1..Len(Chain) : Eligible(j)}) |->
        Chain[CHOOSE j \in 1..Len(Chain) :
                /\ Eligible(j)
                /\ Cardinality({k \in 1..j : Eligible(k)}) = n]]

\* a call whose adapter calls and result follow from the outcomes of its own
\* adapter calls alone
OwnOutcomesOnly(invs, res, finished) ==
    /\ Len(invs) \in 1..Len(Route)
    /\ \A n \in 1..Len(invs) : invs[n].provider = Route[n]
    /\ \A n \in 1..(Len(invs) - 1) : invs[n].outcome = "fail"
    /\ finished =>
          /\ invs[Len(invs)].outcome \in {"ok", "fail"}
          /\ invs[Len(invs)].outcome = "ok" =>
                /\ res.kind = "response"
                /\ res.by = Route[Len(invs)]
          /\ invs[Len(invs)].outcome = "fail" =>
                /\ Len(invs) = Len(Route)
                /\ res.kind = "error"
                /\ res.by = Route[1]

\* C21: after any sequence of earlier complete calls, whatever their
\* outcomes, a call invokes the default adapter first and on failure walks
\* the same eligible fallback entries in the same order, and what it gives
\* its caller follows from the adapter outcomes of that call alone.
C21_NoMemory ==
    /\ \A h \in 1..Len(history) :
          OwnOutcomesOnly(history[h].invocations, history[h].result, TRUE)
    /\ pc /= "idle" =>
          OwnOutcomesOnly(invocations, result, pc \in {"returned", "thrown"})

\* the first call failed on every adapter and threw, and the next call was
\* answered by a fallback that had failed in the first
C21_Witness ==
    /\ Len(history) >= 1
    /\ history[1].result.kind = "error"
    /\ Len(history[1].invocations) >= 2
    /\ pc = "returned"
    /\ Len(invocations) >= 2
    /\ result.kind = "response"
    /\ \E n \in 2..Len(history[1].invocations) :
          /\ history[1].invocations[n].provider = result.by
          /\ history[1].invocations[n].outcome = "fail"

(***************************************************************************)
(* C22.  The model is resolved once per call.                              *)
(***************************************************************************)
\* C22: the model is resolved before the first attempt; the default adapter
\* and every fallback adapter of the call are handed the request with the
\* same model, the request is not written again during the call, and the
\* model smart routing wrote stays on the caller's request after the call.
C22_ResolvedOnce ==
    /\ [](pc /= "idle" =>
            /\ request = selectProvider(router, asked)
            /\ \A n \in 1..Len(invocations) : invocations[n].model = request.model
            /\ (router.smartRouting /\ Truthy(asked.taskType) /\ ~Truthy(asked.model))
                  => request.model = TASK_MODEL_RECOMMENDATIONS[asked.taskType])
    /\ [][(pc \in {"awaitPrimary", "awaitFallback"}) => (request' = request)]_vars

\* a call without a model, with a task type, on a smart-routing router ended
\* on its second fallback: all three adapters got the recommended model
C22_Witness ==
    /\ pc \in {"returned", "thrown"}
    /\ Len(invocations) >= 3
    /\ asked.model = Undefined
    /\ router.smartRouting
    /\ request.model = TASK_MODEL_RECOMMENDATIONS["summarization"]
    /\ invocations[3].model = TASK_MODEL_RECOMMENDATIONS["summarization"]

(***************************************************************************)
(* C23.  Every call ends, with one outcome.                                *)
(***************************************************************************)
\* C23: provided every adapter call finishes, a complete call ends after at
\* most 1 + length(fallbackChain) adapter calls, and it ends with exactly
\* one outcome: a response it returns or an error it throws.
C23_Terminates ==
    /\ [](/\ Len(invocations) <= 1 + Len(Chain)
          /\ pc = "returned" => result.kind = "response"
          /\ pc = "thrown" => result.kind = "error"
          /\ pc \in {"awaitPrimary", "awaitFallback"} => result = None)
    /\ (pc \in {"awaitPrimary", "awaitFallback"}) ~> (pc \in {"returned", "thrown"})

\* a call that used every one of its 1 + length(fallbackChain) adapter calls
\* and threw
C23_Witness ==
    /\ pc = "thrown"
    /\ Len(Chain) >= 2
    /\ Len(invocations) = 1 + Len(Chain)
    /\ result.kind = "error"


(***************************************************************************)
(* C24.  Message building.                                                 *)
(***************************************************************************)
HasSystem(messages) == \E i \in 1..Len(messages) : messages[i].role = "system"

\* C24: with a systemPrompt and no system message in the request, the
\* adapter sends the messages with one system message made of the prompt in
\* front; when the request holds a system message at any position, none is
\* added; a leading system message is never overwritten; the request's own
\* messages are not modified.
C24_SystemMessage ==
    payload /= None =>
        /\ (Truthy(handed.request.systemPrompt) /\ ~HasSystem(handed.request.messages))
              => payload.messages = <<SystemMessage(handed.request.systemPrompt)>>
                                        \o handed.request.messages
        /\ HasSystem(handed.request.messages)
              => payload.messages = handed.request.messages
        /\ (Len(handed.asked.messages) > 0 /\ handed.asked.messages[1].role = "system")
              => payload.messages[1] = handed.asked.messages[1]
        /\ handed.request.messages = handed.asked.messages

(***************************************************************************)
(* C29.  Which model an adapter uses.                                      *)
(***************************************************************************)
\* C29: the adapter uses the request's explicit model; failing that, with
\* smartRouting enabled and a task type given, the router's recommendation
\* for the task type; failing that, the provider's taskModels entry for the
\* task type; failing that, the provider's default model.  With smartRouting
\* enabled the taskModels entry is never used for a request with a task type.
C29_ModelPrecedence ==
    (payload /= None /\ handed.via = "router") =>
        /\ payload.model =
              IF Truthy(handed.asked.model) THEN handed.asked.model
              ELSE IF router.smartRouting /\ Truthy(handed.asked.taskType)
              THEN TASK_MODEL_RECOMMENDATIONS[handed.asked.taskType]
              ELSE IF Truthy(handed.asked.taskType)
                        /\ Truthy(TaskModelOf(adapter, handed.asked.taskType))
              THEN TaskModelOf(adapter, handed.asked.taskType)
              ELSE adapter.defaultModel
        /\ (router.smartRouting /\ Truthy(handed.asked.taskType))
              => payload.model /= TaskModelOf(adapter, handed.asked.taskType)

\* smart routing is on, the provider has a model for summarization, and a
\* summarization request without a model was sent with the recommendation
C29_Witness ==
    /\ payload /= None
    /\ handed.via = "router"
    /\ router.smartRouting
    /\ handed.asked.model = Undefined
    /\ handed.asked.taskType = "summarization"
    /\ TaskModelOf(adapter, "summarization") = "task/summarization"
    /\ payload.model = TASK_MODEL_RECOMMENDATIONS["summarization"]


(***************************************************************************)
(* C25.  The request log.                                                  *)
(***************************************************************************)
\* the last ConfigStore call was op
StoreDid(op) == storeReturn /= None /\ storeReturn.op = op

\* C25: after any sequence of addLog, getLogs and clearLogs the log holds at
\* most 100 entries, newest first; addLog on a full log drops exactly the
\* oldest entry; getLogs(limit) returns the newest min(limit, size) entries.
C25_BoundedLog ==
    /\ Len(storeLogs) <= 100
    /\ \A i \in 1..(Len(storeLogs) - 1) : storeLogs[i].id > storeLogs[i + 1].id
    /\ (StoreDid("addLog") /\ Len(storeReturn.before) = 100) =>
          storeLogs = <<storeReturn.log>> \o SubSeq(storeReturn.before, 1, 99)
    /\ (StoreDid("addLog") /\ Len(storeReturn.before) < 100) =>
          storeLogs = <<storeReturn.log>> \o storeReturn.before
    /\ (StoreDid("getLogs") /\ storeReturn.limit /= << >>
           /\ storeReturn.limit[1] >= 0) =>
          storeReturn.value =
             SubSeq(storeLogs, 1, Min(storeReturn.limit[1], Len(storeLogs)))
    /\ (StoreDid("getLogs") /\ storeReturn.limit = << >>) =>
          storeReturn.value = SubSeq(storeLogs, 1, Min(50, Len(storeLogs)))

\* an entry was added to a log of 100 entries: the oldest one is gone
C25_Witness ==
    /\ StoreDid("addLog")
    /\ Len(storeReturn.before) = 100
    /\ Len(storeLogs) = 100
    /\ storeLogs[1] = storeReturn.log
    /\ storeReturn.before[100].id < storeLogs[100].id


(***************************************************************************)
(* C26.  Token counts stay in range.                                       *)
(***************************************************************************)
\* C26: in every reachable state of a RateLimiter every bucket holds a whole
\* number of tokens from 0 to maxRequests, after any sequence of isAllowed,
\* getRemaining, getRetryAfter, reset and clear calls and any advance or
\* backward jump of the clock.
C26_TokensInRange ==
    \A key \in DOMAIN buckets :
        /\ buckets[key].tokens \in Int
        /\ buckets[key].tokens >= 0
        /\ buckets[key].tokens <= limiter.maxRequests

\* a bucket was emptied and a request refused, and the clock was then set
\* back behind the bucket's lastRefill
C26_Witness ==
    \E key \in DOMAIN buckets :
        /\ buckets[key].lastRefill > now
        /\ buckets[key].tokens = 0
        /\ \E i \in 1..Len(admitLog) : admitLog[i].key = key /\ ~admitLog[i].ok


(***************************************************************************)
(* C27.  The admission bound.                                              *)
(***************************************************************************)
\* the isAllowed calls from the i-th to the j-th that were admitted for key
AdmittedBetween(i, j, key) ==
    Cardinality({n \in i..j : admitLog[n].key = key /\ admitLog[n].ok})

\* C27: without reset or clear, the requests admitted for one bucket key in
\* any time interval of T milliseconds number at most
\* maxRequests + floor(T * maxRequests / windowMs), whatever the schedule of
\* the isAllowed calls.
C27_AdmissionBound ==
    \A i, j \in 1..Len(admitLog) :
        i <= j =>
            AdmittedBetween(i, j, admitLog[i].key)
                <= limiter.maxRequests
                   + ((admitLog[j].t - admitLog[i].t) * limiter.maxRequests)
                         \div limiter.windowMs

\* a burst of maxRequests requests was admitted at once, a further request
\* was refused, and one more was admitted after a refill
C27_Witness ==
    /\ Len(admitLog) >= 3
    /\ \E i, j, k \in 1..Len(admitLog) :
          /\ i < j /\ j < k
          /\ admitLog[i].key = admitLog[j].key
          /\ admitLog[j].key = admitLog[k].key
          /\ admitLog[i].ok /\ ~admitLog[j].ok /\ admitLog[k].ok
          /\ admitLog[k].t > admitLog[j].t
          /\ AdmittedBetween(i, k, admitLog[i].key)
                = limiter.maxRequests
                  + ((admitLog[k].t - admitLog[i].t) * limiter.maxRequests)
                        \div limiter.windowMs

(***************************************************************************)
(* C28.  The retry-after hint.                                             *)
(***************************************************************************)
\* the last isAllowed call for key was refused
LastRefused(key) ==
    \E i \in 1..Len(admitLog) :
        /\ admitLog[i].key = key
        /\ ~admitLog[i].ok
        /\ \A j \in (i + 1)..Len(admitLog) : admitLog[j].key /= key

\* C28 as stated: when isAllowed(c) returned false and getRetryAfter(c) then
\* returned r, an isAllowed(c) call at least r milliseconds later, with no
\* other call for the key in between, returns true; in particular after
\* getRetryAfter returned 0 for an empty bucket.  The call is at least r
\* milliseconds after the hint exactly when windowMs / maxRequests
\* milliseconds have passed since the bucket's lastRefill.
C28_HintSufficient ==
    [][\A c \in ClientIds :
          ( /\ Asked
            /\ LastAsked.key = KeyOf(c)
            /\ lastReturn /= None
            /\ lastReturn.op = "getRetryAfter"
            /\ lastReturn.client = c
            /\ KeyOf(c) \in DOMAIN buckets
            /\ buckets[KeyOf(c)].tokens = 0
            /\ LastRefused(KeyOf(c)) )
          => /\ TokenTimePassed(buckets[KeyOf(c)].lastRefill) => LastAsked.ok
             /\ lastReturn.value.num = 0 => LastAsked.ok]_vars


(***************************************************************************)
(* C30.  A rejected /configure.                                            *)
(***************************************************************************)
\* a configuration the constructor rejects: a provider of an unknown type,
\* or a default provider that is not among the providers
RejectedConfig(body) ==
    \/ \E n \in 1..Len(body.providers) : body.providers[n].type \notin ProviderTypes
    \/ \A n \in 1..Len(body.providers) : body.providers[n].type /= body.defaultProvider

\* the step is a POST /configure
Configuring == gateway'.configures = gateway.configures + 1

\* the step is the arrival of request i at its handler
Arriving(i) == reqs[i].pc = "idle" /\ reqs'[i].pc = "parsing"

\* C30: a POST /configure whose configuration is rejected (unknown provider
\* type, or missing default provider) is answered with an error and leaves
\* the gateway's router as it was: a router configured earlier serves the
\* later /complete and /route requests, and when there was none the next
\* request makes the router from the environment.
C30_RejectedConfigure ==
    /\ [][(Configuring /\ RejectedConfig(gateway'.answer.body))
             => /\ gateway'.answer.status = 500
                /\ gateway'.answer.error /= ""
                /\ gateway'.router = gateway.router]_vars
    /\ [][\A i \in Reqs :
             Arriving(i) =>
                /\ gateway.router /= "null" =>
                      (reqs'[i].router = gateway.router /\ gateway'.router = gateway.router)
                /\ gateway.router = "null" =>
                      (reqs'[i].router = "env" /\ gateway'.router = "env")]_vars

\* /configure made a router with ollama, a second /configure was rejected,
\* and a request that arrived after it was served by the first router
C30_Witness ==
    /\ gateway.configures = 2
    /\ gateway.answer.status = 500
    /\ gateway.answer.app = "api"
    /\ gateway.router = "configured:ollama"
    /\ \E i \in Reqs :
          /\ reqs[i].app = "api"
          /\ reqs[i].configures = 2
          /\ reqs[i].router = "configured:ollama"
          /\ reqs[i].pc = "done"
          /\ reqs[i].response.status = 200

=============================================================================
